---- MODULE Spec2Model ----
(***************************************************************************)
(* Model of the real-time interaction core of igssax-blogapp-backend:      *)
(* the reaction toggle engine and its summary cache (reactions/,           *)
(* comments/api), live-stream presence, bans and moderation (livestream/)  *)
(* and the notification fan-out (notifications/).                          *)
(*                                                                         *)
(* Granularity.  A REST handler runs in its own thread and a WebSocket     *)
(* handler awaits every database_sync_to_async call, so handlers of        *)
(* different requests interleave between their store accesses.  A handler  *)
(* is therefore a task that moves through program points (pc); one step    *)
(* is one store access (or one awaited database function) together with    *)
(* the in-memory work that follows it.                                     *)
(***************************************************************************)
EXTENDS Integers, FiniteSets, Sequences, TLC

\* ------------------------------------------------------------------ bounds
MaxReactionId == 2
MaxTime == 1
MaxParticipantId == 3
MaxWatchTime == 2
MaxMessageId == 1
MaxFlagCount == 3
MaxNotificationId == 2
MaxFeedId == 3
MaxClock == 2
MaxChat == 2
MaxFlagOps == 5
MaxHandlerDepth == 3
MaxRaceOps == 2

\* ---------------------------------------------------------------- universe
Users == {"u1", "u2"}
Tasks == {"t1", "t2"}
Targets == {"comment1"}
\* reactions/models.py REACTION_TYPES, restricted to two of its six kinds
ReactionTypes == {"like", "love"}
NoRow == [id |-> 0]
NoEntry == [present |-> FALSE]
NoRead == [target |-> "none"]
Idle == [pc |-> "idle"]
NoOutcome == [op |-> "none"]
\* NULL of a nullable DateTimeField (left_at, expires_at)
Null == -1
\* LiveStream.streamer of the one stream of the model
Streamer == "u1"
\* LiveStream.privacy of that stream (PrivacyLevel.PUBLIC, the default)
Privacy == "public"
NoAttempt == [op |-> "none"]
NoRace == [on |-> FALSE]
\* scope["user"] of a WebSocket connection: a user, or AnonymousUser
Callers == Users \cup {"anon"}
RoomKinds == {"chat", "comment", "stream", "dm"}
\* LiveStream.PrivacyLevel
PrivacyLevels == {"public", "friends", "private"}
\* Conversation.participants of the one conversation of the model
ConversationParticipants == {"u1"}

\* Comment.author of the target (getattr(target, "author", None))
Author(t) == "u1"
ModelName(t) == "comment"

VARIABLES
  reactions,        \* Reaction table: set of [id, user, target, kind]
  nextReactionId,   \* next primary key of the Reaction table
  streamReactions,  \* StreamReaction table: rows per (user, kind) of the stream
  cache,            \* django cache: target -> summary | NoEntry
  rtask,            \* in-flight reaction handlers, one per task
  lastOutcome,      \* what the most recently finished reaction handler did
  race,             \* two toggles on one (user, target) under observation:
                    \*   the kind on record before them, each one's answer
  summaryRead,      \* result of the latest summary read, NoRead after a write
  notifications,    \* Notification table: set of [recipient, sender, kind]
  pushed,           \* number of group_send calls made by create_notification
  mailbox,          \* NotificationPreference row per user, and the mails
                    \*   create_notification has sent with send_mail
  now,              \* timezone.now()
  stream,           \* the LiveStream row: status, viewer_count, peak_viewers, title
  participants,     \* StreamParticipant table: set of
                    \*   [id, user, joined_at, left_at, watch_time]
  nextParticipantId,
  bans,             \* StreamBan table: set of [user, expires_at]
  ptask,            \* the in-flight handler that loaded the stream row
  wsState,          \* LiveStreamConsumer of each user: its position in
                    \*   connect / disconnect
  lastAttempt,      \* the latest join or message attempt made by a user
                    \*   who has a ban row, and its fate
  lastBan,          \* the latest REST ban-creation request aimed at the
                    \*   streamer, and its fate
  messages,         \* StreamMessage table: set of
                    \*   [id, user, flag_count, is_flagged, is_moderated]
  nextMessageId,
  mtask,            \* per task: the REST handler that loaded a message row
  nextNotificationId,
  lastNotify,       \* the latest create_notification call and its outcome,
                    \*   forgotten when a reaction toggle starts
  feed,             \* the StreamMessage rows of two streams in timestamp
                    \*   order, and the latest answer of the message feed
  bus,              \* the events of the stream's room: its status and open
                    \*   viewers, what the group and the broker were sent, and
                    \*   what the latest handler logged and published
  sess,             \* the WebSocket sessions of the stream's room, the
                    \*   participant rows and the clock
  entry,            \* what the requests of one caller leave behind:
                    \*   reaction rows, cache keys, messages
  accounts,         \* the User rows with their Profile, UserSettings
                    \*   and NotificationPreference rows
  flagging,         \* one stream message under concurrent flag
                    \*   requests, and the post_save runs of each
  lookaside,        \* one target's reaction rows and summary cache key
                    \*   with a summary read and a toggle in steps
  rooms             \* the WebSocket rooms (conversation, post comments,
                    \*   stream, direct messages): the stream's privacy,
                    \*   each caller's connection, the channel-layer groups,
                    \*   who connected without the room's authorization and
                    \*   which of those callers an event of the room reached

reactionVars == <<reactions, nextReactionId, streamReactions, cache, rtask, lastOutcome, race, summaryRead>>
notifVars == <<notifications, pushed, mailbox, nextNotificationId, lastNotify>>
streamVars == <<now, stream, participants, nextParticipantId, bans, ptask,
                wsState, lastAttempt, lastBan, messages, nextMessageId, mtask>>
sideVars == <<rooms, feed, bus, sess, entry, accounts, flagging, lookaside>>
vars == <<reactions, nextReactionId, streamReactions,
          cache, rtask, lastOutcome, race, summaryRead, notifications, pushed, mailbox,
          now, stream, participants, nextParticipantId, bans, ptask,
          wsState, lastAttempt, lastBan, messages, nextMessageId, mtask,
          nextNotificationId, lastNotify, rooms, feed, bus, sess, entry, accounts, flagging,
          lookaside>>

\* ------------------------------------------------- notification fan-out
\* Columns of notifications.models.Notification
NotificationFields == {"recipient", "sender", "notification_type", "title",
                       "message", "content_type", "object_id", "is_read",
                       "created_at"}
\* Keyword arguments create_notification passes to Notification.objects.create
CreateKwargs == {"recipient", "sender", "notification_type", "title",
                 "message", "content_type", "object_id", "extra_data",
                 "timestamp"}
\* django Model.__init__ raises TypeError on a keyword that is no field
ModelAccepts(kwargs) == kwargs \subseteq NotificationFields

\* create_notification: "skipped" (returns None), "created" or "raised"
NotifyOutcome(recipient, sender) ==
  IF recipient = "none" \/ (sender # "none" /\ sender = recipient)
  THEN "skipped"
  ELSE IF ModelAccepts(CreateKwargs) THEN "created" ELSE "raised"

\* NotificationPreference: the two email booleans create_notification
\* reads, with their field defaults; NoPrefs is a user without a row
PrefDefaults ==
  [present |-> TRUE, email_messages |-> FALSE, email_friend_requests |-> TRUE]
NoPrefs == [present |-> FALSE]
PrefRows ==
  {[present |-> TRUE, email_messages |-> a, email_friend_requests |-> b] :
     a \in BOOLEAN, b \in BOOLEAN}
\* notification_type values passed to create_notification
NotificationKinds ==
  {"message", "friend_request", "post_comment", "comment_reply",
   "comment_mention", "comment_reaction", "post_reaction", "system"}

\* the preference boolean of a notification kind's category; the kinds
\* whose boolean the model does not carry count as not set
CategorySet(event, row) ==
  IF event = "message" THEN row.email_messages
  ELSE IF event = "friend_request" THEN row.email_friend_requests
  ELSE FALSE

\* a mail gate that looks at the kind only
MailWanted_AnyKind(event, row) == event \in {"message", "friend_request"}
\* the condition under which create_notification calls send_mail
MailWanted(event, row) ==
  \/ event = "message" /\ row.email_messages
  \/ event = "friend_request" /\ row.email_friend_requests

\* the mail step of create_notification: hasattr(recipient,
\* "notification_preferences") is false without a row; each mail is noted
\* with whether the category boolean was set when it was sent
SendMail(mail, event, recipient) ==
  LET row == mail.prefs[recipient]
  IN IF row.present /\ MailWanted(event, row)
     THEN [mail EXCEPT !.sent = @ \cup {[recipient |-> recipient,
                                          kind |-> event,
                                          set |-> CategorySet(event, row)]}]
     ELSE mail

\* the notification side of the store as one value, threaded through the
\* create_notification calls of a handler; raised marks a call that ended
\* in an exception, which ends the handler
NotifState ==
  [rows |-> notifications, next |-> nextNotificationId, pushed |-> pushed,
   mail |-> mailbox,
   last |-> lastNotify, raised |-> FALSE]

\* create_notification(recipient, sender, notification_type=event): the row
\* and the group_send when it gets that far
ApplyNotify(st, event, recipient, sender) ==
  IF st.raised THEN st
  ELSE LET n == NotifyOutcome(recipient, sender)
       IN [rows |-> IF n = "created"
                    THEN st.rows \cup {[id |-> st.next,
                                        recipient |-> recipient,
                                        sender |-> sender, kind |-> event]}
                    ELSE st.rows,
           next |-> IF n = "created" THEN st.next + 1 ELSE st.next,
           pushed |-> IF n = "created" THEN st.pushed + 1 ELSE st.pushed,
           mail |-> IF n = "created" THEN SendMail(st.mail, event, recipient)
                    ELSE st.mail,
           last |-> [op |-> event, recipient |-> recipient,
                     sender |-> sender, outcome |-> n],
           raised |-> n = "raised"]

\* what a handler's create_notification calls leave behind
SetNotifState(st) ==
  /\ st.next <= MaxNotificationId + 1
  /\ notifications' = st.rows
  /\ nextNotificationId' = st.next
  /\ pushed' = st.pushed
  /\ mailbox' = st.mail
  /\ lastNotify' = st.last

\* ReactionViewSet._send_reaction_notification returns before notifying
SendSkips(user, target) == Author(target) = "none" \/ Author(target) = user

ReactionNotifyOutcome(user, target) ==
  IF SendSkips(user, target)
  THEN "skipped"
  ELSE NotifyOutcome(Author(target), user)

\* ReactionViewSet._send_reaction_notification
SendReactionNotification(st, user, target) ==
  IF SendSkips(user, target) THEN st
  ELSE ApplyNotify(st, ModelName(target) \o "_reaction", Author(target), user)

\* ------------------------------------------------------ reaction store
Existing(u, t) == {r \in reactions : r.user = u /\ r.target = t}
\* QuerySet.first()
First(S) == IF S = {} THEN NoRow
            ELSE CHOOSE r \in S : \A q \in S : r.id <= q.id
\* a Reaction table without the unique index
UniqueViolation_NoIndex(u, t, id) == FALSE
\* unique_together = ("user", "content_type", "object_id")
UniqueViolation(u, t, id) == \E r \in reactions :
                                r.user = u /\ r.target = t /\ r.id # id

\* grouped count by kind, zero-filled (get_reaction_summary_cached, miss path)
LiveSummary(t) ==
  [k \in ReactionTypes |->
     Cardinality({r \in reactions : r.target = t /\ r.kind = k})]

TypeOK ==
  /\ nextReactionId \in 1..(MaxReactionId + 1)
  /\ \A r \in reactions : r.user \in Users /\ r.target \in Targets
  /\ pushed \in Nat

\* the grouped count of the rows of one target, as compute builds it
GroupedCount(rows) ==
  [k \in ReactionTypes |-> Cardinality({u \in Users : rows[u] = k})]
\* a cache key that is not set
NoSummary == [present |-> FALSE, value |-> GroupedCount([u \in Users |-> "none"])]

\* a request worker that is not serving a flag request
FlagIdle == [pc |-> "idle", seen |-> 0, depth |-> 0]

\* addresses a user may register with
Emails == {"a@x", "b@x", "c@x"}
\* a user that does not exist
NoUser == [exists |-> FALSE, profiles |-> 0, settings |-> 0, prefs |-> 0]
\* the post_save receivers of User, in the order their modules connect
\* them: users.signals and notifications.signals, either app first
ReceiverOrders ==
  {<<"profile_and_settings", "user_settings", "preferences", "welcome">>,
   <<"preferences", "welcome", "profile_and_settings", "user_settings">>}

\* REACTION_TYPES (two of the six choices) and a kind that is not a choice
RequestKinds == ReactionTypes \cup {"bogus"}
\* the post of the reactions room and one of its comments; the caller of
\* the requests is their author, so that no reaction notification is due
EntryTargets == {"post1", "comment1"}

\* the sockets one user may hold open to the stream's room at a time
SessionIds == {"s1", "s2"}
\* minutes after last_activity for which a participant counts as online
StaleWindow == 2

\* the frame of an action of one side subsystem: everything but the
\* subsystem's own variable is left as it was
SideFrame(own) ==
  /\ UNCHANGED reactionVars
  /\ UNCHANGED notifVars
  /\ UNCHANGED streamVars
  /\ IF own = "rooms" THEN TRUE ELSE UNCHANGED rooms
  /\ IF own = "feed" THEN TRUE ELSE UNCHANGED feed
  /\ IF own = "bus" THEN TRUE ELSE UNCHANGED bus
  /\ IF own = "sess" THEN TRUE ELSE UNCHANGED sess
  /\ IF own = "entry" THEN TRUE ELSE UNCHANGED entry
  /\ IF own = "accounts" THEN TRUE ELSE UNCHANGED accounts
  /\ IF own = "flagging" THEN TRUE ELSE UNCHANGED flagging
  /\ IF own = "lookaside" THEN TRUE ELSE UNCHANGED lookaside

Init ==
  /\ reactions = {}
  /\ nextReactionId = 1
  /\ streamReactions = [u \in Users |-> [k \in ReactionTypes |-> 0]]
  /\ cache = [t \in Targets |-> NoEntry]
  /\ rtask = [t \in Tasks |-> Idle]
  /\ lastOutcome = NoOutcome
  /\ race = NoRace
  /\ summaryRead = NoRead
  /\ notifications = {}
  /\ pushed = 0
  /\ mailbox = [prefs |-> [u \in Users |-> PrefDefaults], sent |-> {}]
  /\ now = 0
  /\ stream = [status |-> "scheduled", viewer_count |-> 0, peak_viewers |-> 0,
               title |-> "a"]
  /\ participants = {}
  /\ nextParticipantId = 1
  /\ bans = {}
  /\ ptask = Idle
  /\ wsState = [u \in Users |-> "closed"]
  /\ lastAttempt = NoAttempt
  /\ lastBan = NoOutcome
  /\ messages = {}
  /\ nextMessageId = 1
  /\ mtask = [t \in Tasks |-> Idle]
  /\ nextNotificationId = 1
  /\ lastNotify = NoOutcome
  /\ bus = [status |-> "scheduled", rows |-> {}, joined |-> {}, owed |-> {},
            sent |-> {}, produced |-> {}, forwarded |-> {}, topic |-> {},
            last |-> NoOutcome]
  /\ sess = [conn |-> [u \in Users |-> [c \in SessionIds |-> "closed"]],
             row |-> [u \in Users |-> [exists |-> FALSE, open |-> FALSE, last |-> 0]],
             counted |-> {},
             clock |-> 0]
  /\ entry = [rows |-> [tg \in EntryTargets |-> "none"],
              cached |-> {},
              sreacts |-> {},
              msgs |-> 0,
              last |-> NoOutcome]
  /\ accounts = [rows |-> [e \in Emails |-> NoUser], last |-> NoOutcome]
  /\ flagging = [flag_count |-> 0, is_flagged |-> FALSE, is_moderated |-> FALSE,
                 accepted |-> 0,
                 task |-> [t \in Tasks |-> FlagIdle],
                 last |-> NoOutcome]
  /\ lookaside = [rows |-> [u \in Users |-> "none"],
                  key |-> NoSummary,
                  reader |-> [pc |-> "idle", value |-> NoSummary.value],
                  toggler |-> "idle",
                  reads |-> 0,
                  toggles |-> 0]
  /\ feed = [rows |-> {}, asked |-> FALSE]
  /\ rooms = [privacy |-> Privacy,
              state |-> [c \in Callers |-> [r \in RoomKinds |-> "none"]],
              group |-> [r \in RoomKinds |-> {}],
              unauthorized |-> [r \in RoomKinds |-> {}],
              received |-> [r \in RoomKinds |-> {}]]

\* ------------------------------------------------ reaction toggle engine
InFlightInserts == Cardinality({t \in Tasks : rtask[t].pc = "write"
                                               /\ rtask[t].existing = NoRow})
KindOf(row) == IF row = NoRow THEN "none" ELSE row.kind

\* Model.save() of a loaded instance: UPDATE by primary key, INSERT when the
\* UPDATE matched no row; the unique index rejects a second row for the key.
SaveRaises(e, u, tg) == UniqueViolation(u, tg, e.id)
SaveResult(e, u, tg, k) ==
  {r \in reactions : r.id # e.id} \cup
    {[id |-> e.id, user |-> u, target |-> tg, kind |-> k]}
\* Reaction.objects.create
CreateRaises(u, tg) == UniqueViolation(u, tg, 0)
CreateResult(u, tg, k) ==
  reactions \cup {[id |-> nextReactionId, user |-> u, target |-> tg, kind |-> k]}

\* the pair of toggles under observation: what the handler of task t
\* answered, kept while a pair is being observed
RaceRecord(t, k, result) ==
  IF race.on
  THEN [race EXCEPT !.done[t] = [op |-> "toggle", kind |-> k,
                                 result |-> result]]
  ELSE race

Outcome(task, result) ==
  [op |-> task.op, own |-> task.own, kind |-> task.kind, prior |-> task.prior,
   clean |-> task.clean, result |-> result, afterKind |-> task.afterKind,
   sameRow |-> task.sameRow]

\* ReactionViewSet.toggle / ReactionConsumer.handle_toggle: look up the
\* caller's record for the target
ToggleLookup(t, op, u, tg, k) ==
  /\ rtask[t] = Idle
  /\ nextReactionId + InFlightInserts <= MaxReactionId
  /\ rtask' = [rtask EXCEPT ![t] =
       [pc |-> "write", op |-> op, user |-> u, target |-> tg, kind |-> k,
        existing |-> First(Existing(u, tg))]]
  /\ lastOutcome' = NoOutcome
  /\ lastNotify' = NoOutcome
  /\ UNCHANGED <<reactions, nextReactionId, streamReactions, cache,
                 summaryRead>>
  /\ UNCHANGED <<notifications, pushed, mailbox, nextNotificationId>>
  /\ UNCHANGED <<streamVars, sideVars>>

RestToggleLookup(t) ==
  \E u \in Users, tg \in Targets, k \in ReactionTypes :
     ToggleLookup(t, "rest_toggle", u, tg, k) /\ UNCHANGED race

WsToggleLookup(t) ==
  \E u \in Users, tg \in Targets, k \in ReactionTypes :
     ToggleLookup(t, "ws_toggle", u, tg, k) /\ UNCHANGED race

\* two toggle requests on the same (user, target): the lookup of either
\* handler; the first lookup of a pair notes the kind on record, and a
\* new pair starts once both handlers of the last one have answered
RaceOver == ~race.on \/ \A x \in Tasks : race.done[x].op # "none"
RaceLookup(t, op) ==
  \E u \in Users, tg \in Targets, k \in ReactionTypes :
    /\ ToggleLookup(t, op, u, tg, k)
    /\ IF RaceOver
       THEN race' = [on |-> TRUE, user |-> u, target |-> tg,
                     base |-> KindOf(First(Existing(u, tg))),
                     done |-> [x \in Tasks |-> NoOutcome]]
       ELSE /\ u = race.user
            /\ tg = race.target
            /\ race.done[t].op = "none"
            /\ UNCHANGED race

RestToggleRace(t) == RaceLookup(t, "rest_toggle")
WsToggleRace(t) == RaceLookup(t, "ws_toggle")

\* the branch taken on the record that was looked up, and its store write
ToggleWrite(t) ==
  /\ rtask[t].pc = "write"
  /\ LET task == rtask[t]
         e == task.existing
         u == task.user
         tg == task.target
         k == task.kind
         cur == First(Existing(u, tg))
         planned == IF e = NoRow THEN "created"
                    ELSE IF e.kind = k THEN "removed" ELSE "updated"
         raises == IF e = NoRow THEN CreateRaises(u, tg)
                   ELSE IF e.kind = k THEN FALSE ELSE SaveRaises(e, u, tg)
         newRows == IF e = NoRow THEN CreateResult(u, tg, k)
                    ELSE IF e.kind = k THEN {r \in reactions : r.id # e.id}
                    ELSE SaveResult(e, u, tg, k)
         after == First({r \in newRows : r.user = u /\ r.target = tg})
         done == [op |-> task.op, user |-> u, target |-> tg, kind |-> k,
                  own |-> (Author(tg) = u), prior |-> KindOf(e),
                  clean |-> (cur = e), planned |-> planned,
                  afterKind |-> KindOf(after), sameRow |-> (after.id = e.id)]
     IN IF raises
        THEN /\ rtask' = [rtask EXCEPT ![t] = Idle]
             /\ lastOutcome' = Outcome(done, "integrity_error")
             /\ race' = RaceRecord(t, k, "integrity_error")
             /\ UNCHANGED <<reactions, nextReactionId, summaryRead>>
        ELSE /\ reactions' = newRows
             /\ nextReactionId' = IF e = NoRow THEN nextReactionId + 1
                                  ELSE nextReactionId
             /\ summaryRead' = NoRead
             /\ rtask' = [rtask EXCEPT ![t] =
                  done @@ [pc |-> IF task.op = "ws_toggle"
                                  THEN "summary" ELSE "after"]]
             /\ UNCHANGED <<lastOutcome, race>>
  /\ UNCHANGED <<streamReactions, cache>>
  /\ UNCHANGED notifVars
  /\ UNCHANGED <<streamVars, sideVars>>

\* ReactionViewSet._after_reaction_change (cache invalidation, then the
\* notification) and the response; the "removed" branch only invalidates
RestAfterChange(t) ==
  /\ rtask[t].pc = "after"
  /\ LET task == rtask[t]
         n == IF task.planned = "removed" THEN "skipped"
              ELSE ReactionNotifyOutcome(task.user, task.target)
     IN /\ cache' = [cache EXCEPT ![task.target] = NoEntry]
        /\ lastOutcome' = Outcome(task, IF n = "raised" THEN "error"
                                        ELSE task.planned)
        /\ race' = RaceRecord(t, task.kind, IF n = "raised" THEN "error"
                                            ELSE task.planned)
        /\ IF task.planned = "removed"
           THEN UNCHANGED notifVars
           ELSE SetNotifState(
                  SendReactionNotification(NotifState, task.user, task.target))
  /\ rtask' = [rtask EXCEPT ![t] = Idle]
  /\ UNCHANGED <<reactions, nextReactionId, streamReactions, summaryRead>>
  /\ UNCHANGED <<streamVars, sideVars>>

\* get_reaction_summary_cached: the cached dict when there is one (a dict of
\* six keys is truthy), else the grouped count, which is then cached
CachedSummary(tg) == IF cache[tg].present THEN cache[tg].value
                     ELSE LiveSummary(tg)
CacheEntry(summary) == [present |-> TRUE, value |-> summary]

\* ReactionConsumer.broadcast_summary and broadcast_event
WsBroadcastSummary(t) ==
  /\ rtask[t].pc = "summary"
  /\ summaryRead' = [target |-> rtask[t].target,
                     value |-> CachedSummary(rtask[t].target)]
  /\ cache' = [cache EXCEPT ![rtask[t].target] =
                        CacheEntry(CachedSummary(rtask[t].target))]
  /\ lastOutcome' = Outcome(rtask[t], rtask[t].planned)
  /\ race' = RaceRecord(t, rtask[t].kind, rtask[t].planned)
  /\ rtask' = [rtask EXCEPT ![t] = Idle]
  /\ UNCHANGED <<reactions, nextReactionId, streamReactions>>
  /\ UNCHANGED notifVars
  /\ UNCHANGED <<streamVars, sideVars>>

\* ReactionViewSet.perform_create: insert, IntegrityError -> ValidationError
RestCreate(t) ==
  \E u \in Users, tg \in Targets, k \in ReactionTypes :
    /\ rtask[t] = Idle
    /\ nextReactionId + InFlightInserts <= MaxReactionId
    /\ LET e == First(Existing(u, tg))
           done == [op |-> "rest_create", user |-> u, target |-> tg,
                    kind |-> k, own |-> (Author(tg) = u), prior |-> KindOf(e),
                    clean |-> TRUE, planned |-> "created",
                    afterKind |-> k, sameRow |-> FALSE]
       IN IF CreateRaises(u, tg)
          THEN /\ lastOutcome' = Outcome([done EXCEPT !.afterKind = KindOf(e),
                                                      !.sameRow = TRUE],
                                         "already_reacted")
               /\ UNCHANGED <<reactions, nextReactionId, rtask, summaryRead,
                              race>>
          ELSE /\ reactions' = CreateResult(u, tg, k)
               /\ nextReactionId' = nextReactionId + 1
               /\ summaryRead' = NoRead
               /\ rtask' = [rtask EXCEPT ![t] = done @@ [pc |-> "after"]]
               /\ UNCHANGED <<lastOutcome, race>>
    /\ UNCHANGED <<streamReactions, cache>>
    /\ UNCHANGED notifVars
    /\ UNCHANGED <<streamVars, sideVars>>

\* CommentViewSet.react: update_or_create on (user, comment), no invalidation
CommentReact ==
  \E u \in Users, k \in ReactionTypes :
    /\ nextReactionId + InFlightInserts <= MaxReactionId
    /\ LET e == First(Existing(u, "comment1"))
       IN /\ reactions' = IF e = NoRow THEN CreateResult(u, "comment1", k)
                          ELSE SaveResult(e, u, "comment1", k)
          /\ nextReactionId' = IF e = NoRow THEN nextReactionId + 1
                               ELSE nextReactionId
          /\ UNCHANGED <<lastOutcome, race>>
    /\ summaryRead' = NoRead
    /\ UNCHANGED <<streamReactions, cache, rtask>>
    /\ UNCHANGED notifVars
    /\ UNCHANGED <<streamVars, sideVars>>

\* CommentViewSet.remove_reaction: delete the caller's rows, no invalidation
CommentRemoveReaction ==
  \E u \in Users :
    /\ Existing(u, "comment1") # {}
    /\ reactions' = reactions \ Existing(u, "comment1")
    /\ UNCHANGED <<lastOutcome, race>>
    /\ summaryRead' = NoRead
    /\ UNCHANGED <<nextReactionId, streamReactions,
                   cache, rtask>>
    /\ UNCHANGED notifVars
    /\ UNCHANGED <<streamVars, sideVars>>

\* ReactionViewSet.summary
SummaryRead ==
  \E tg \in Targets :
    /\ summaryRead' = [target |-> tg, value |-> CachedSummary(tg)]
    /\ cache' = [cache EXCEPT ![tg] = CacheEntry(CachedSummary(tg))]
    /\ UNCHANGED <<reactions, nextReactionId, streamReactions, rtask, lastOutcome, race>>
    /\ UNCHANGED notifVars
    /\ UNCHANGED <<streamVars, sideVars>>

\* the cache entry times out (CACHE_TIMEOUT)
CacheExpire ==
  \E tg \in Targets :
    /\ cache[tg].present
    /\ cache' = [cache EXCEPT ![tg] = NoEntry]
    /\ UNCHANGED <<reactions, nextReactionId, streamReactions, rtask, lastOutcome, race, summaryRead>>
    /\ UNCHANGED notifVars
    /\ UNCHANGED <<streamVars, sideVars>>

\* get_or_create's lookup on (stream, user, reaction_type), the columns of
\* unique_together = ["stream", "user", "reaction_type"]
StreamReactionExists(u, k) == streamReactions[u][k] > 0

\* LiveStreamConsumer.save_reaction: get_or_create(stream, user, reaction_type)
WsStreamReaction ==
  \E u \in Users, k \in ReactionTypes :
    /\ ~StreamReactionExists(u, k)
    /\ streamReactions' = [streamReactions EXCEPT ![u][k] = @ + 1]
    /\ UNCHANGED <<reactions, nextReactionId, cache, rtask, lastOutcome, race,
                   summaryRead>>
    /\ UNCHANGED notifVars
    /\ UNCHANGED <<streamVars, sideVars>>

\* StreamReactionViewSet.destroy: a user removes one of their own reactions
StreamReactionDestroy ==
  \E u \in Users, k \in ReactionTypes :
    /\ streamReactions[u][k] > 0
    /\ streamReactions' = [streamReactions EXCEPT ![u][k] = @ - 1]
    /\ UNCHANGED <<reactions, nextReactionId, cache, rtask, lastOutcome, race,
                   summaryRead>>
    /\ UNCHANGED notifVars
    /\ UNCHANGED <<streamVars, sideVars>>

\* no handler is between two of its steps
Quiet == \A t \in Tasks : rtask[t] = Idle

\* every reaction entry point and the summary reads, one request at a time
NextReactions ==
  \/ Quiet /\ RestToggleLookup("t1")
  \/ Quiet /\ WsToggleLookup("t1")
  \/ ToggleWrite("t1")
  \/ RestAfterChange("t1")
  \/ WsBroadcastSummary("t1")
  \/ Quiet /\ RestCreate("t1")
  \/ Quiet /\ CommentReact
  \/ Quiet /\ CommentRemoveReaction
  \/ Quiet /\ SummaryRead
  \/ Quiet /\ CacheExpire

SpecReactions == Init /\ [][NextReactions]_vars

\* the writers of the two reaction tables: the steps of one task's handler
\* interleaved with the single-statement writers of other requests
NextReactionRecords ==
  \/ RestToggleLookup("t1")
  \/ WsToggleLookup("t1")
  \/ ToggleWrite("t1")
  \/ RestAfterChange("t1")
  \/ WsBroadcastSummary("t1")
  \/ RestCreate("t1")
  \/ CommentReact
  \/ CommentRemoveReaction
  \/ WsStreamReaction
  \/ StreamReactionDestroy

SpecReactionRecords == Init /\ [][NextReactionRecords]_vars

\* two toggle requests on one (user, target), every step of one handler
\* free to fall between the steps of the other
NextToggleRace ==
  \/ \E t \in Tasks : RestToggleRace(t)
  \/ \E t \in Tasks : WsToggleRace(t)
  \/ \E t \in Tasks : ToggleWrite(t)
  \/ \E t \in Tasks : RestAfterChange(t)
  \/ \E t \in Tasks : WsBroadcastSummary(t)

SpecToggleRace == Init /\ [][NextToggleRace]_vars

\* ------------------------------------------------- live-stream presence
\* The model has one LiveStream, public, owned by Streamer, whose
\* StreamAnalytics row exists (handle_livestream_creation makes it when the
\* stream is created), so the post_save handlers of its participants and
\* messages run their bodies.
NoParticipant == [id |-> 0]
Titles == {"a", "b"}

RowsOf(u) == {p \in participants : p.user = u}
\* .filter(left_at__isnull=True)
OpenRows(rows) == {p \in rows : p.left_at = Null}
ActiveCount(rows) == Cardinality(OpenRows(rows))
Max(a, b) == IF a > b THEN a ELSE b

\* LiveStream.can_view
CanView(u) ==
  IF Privacy = "public" THEN TRUE
  ELSE IF Privacy = "private" THEN u = Streamer
  ELSE FALSE

\* StreamBan.is_active
IsActive(b) == IF b.expires_at # Null THEN now < b.expires_at ELSE TRUE
HasActiveBan(u) == \E b \in bans : b.user = u /\ IsActive(b)
\* StreamBan.objects.filter(stream, user, expires_at__gt=now).exists():
\* a NULL expires_at satisfies no comparison
BanFilterExists(u) ==
  \E b \in bans : b.user = u /\ b.expires_at # Null /\ b.expires_at > now

HasBanRow(u) == \E b \in bans : b.user = u
\* what lastAttempt holds after an attempt of u: the attempt, and whether
\* u's ban row was active or already expired when it was made; attempts of
\* users without a ban row are not recorded
Attempt(op, u, accepted) ==
  IF HasBanRow(u)
  THEN [op |-> op, user |-> u, accepted |-> accepted,
        active |-> HasActiveBan(u)]
  ELSE lastAttempt

\* LiveStream.update_viewer_count on the instance s, then s.save()
UpdateViewerCount(s, rows) ==
  [s EXCEPT !.viewer_count = ActiveCount(rows),
            !.peak_viewers = IF ActiveCount(rows) > s.peak_viewers
                             THEN ActiveCount(rows) ELSE s.peak_viewers]

\* the row write of LiveStreamConsumer.send_viewer_count
SendViewerCountRow(s, rows) ==
  [s EXCEPT !.viewer_count = ActiveCount(rows),
            !.peak_viewers = Max(s.peak_viewers, ActiveCount(rows))]

\* StreamParticipant.objects.get(stream, user)
ParticipantLookup(u) ==
  IF RowsOf(u) = {} THEN NoParticipant
  ELSE CHOOSE p \in RowsOf(u) : \A q \in RowsOf(u) : p.id <= q.id
\* StreamParticipant.objects.get(stream, user, left_at__isnull=True)
OpenLookup(u) ==
  IF OpenRows(RowsOf(u)) = {} THEN NoParticipant
  ELSE CHOOSE p \in OpenRows(RowsOf(u)) :
         \A q \in OpenRows(RowsOf(u)) : p.id <= q.id
\* a StreamParticipant table without the unique index
ParticipantUniqueViolation_NoIndex(u) == FALSE
\* unique_together = ["stream", "user"]
ParticipantUniqueViolation(u) == RowsOf(u) # {}
\* the row get_or_create inserts: defaults joined_at=now, watch_time=0
NewParticipant(u) ==
  [id |-> nextParticipantId, user |-> u, joined_at |-> now, left_at |-> Null,
   watch_time |-> 0]
\* Model.save(): every column of the in-memory instance, by primary key
SaveParticipant(row, rows) == {p \in rows : p.id # row.id} \cup {row}

\* the rest of the live-stream state
UnchangedByPresence ==
  /\ UNCHANGED <<reactionVars, sideVars>>
  /\ UNCHANGED notifVars
  /\ UNCHANGED <<messages, nextMessageId, mtask>>

\* LiveStreamViewSet.join up to get_or_create's lookup: get_object, can_view,
\* the ban filter (403 when it matches) and the SELECT of the row
RestJoinLoad(u) ==
  /\ ptask = Idle
  /\ CanView(u)
  /\ UNCHANGED lastBan
  /\ lastAttempt' = Attempt("rest_join", u, ~BanFilterExists(u))
  /\ ptask' = IF BanFilterExists(u) THEN Idle
              ELSE [pc |-> "commit", op |-> "rest_join", user |-> u,
                    snap |-> stream, found |-> ParticipantLookup(u)]
  /\ UNCHANGED <<now, stream, participants, nextParticipantId, bans, wsState>>
  /\ UnchangedByPresence

\* LiveStreamViewSet.join from get_or_create's INSERT on: a unique violation
\* makes get_or_create return the row that is there; a row that was closed
\* is reopened with joined_at reset; stream.update_viewer_count() runs on
\* the instance get_object loaded
RestJoinCommit ==
  /\ ptask.pc = "commit" /\ ptask.op = "rest_join"
  /\ LET u == ptask.user
         miss == ptask.found = NoParticipant
         created == miss /\ ~ParticipantUniqueViolation(u)
         got == IF miss THEN ParticipantLookup(u) ELSE ptask.found
         reopen == ~created /\ got.left_at # Null
         rows == IF created THEN participants \cup {NewParticipant(u)}
                 ELSE IF reopen
                 THEN SaveParticipant([got EXCEPT !.left_at = Null,
                                                  !.joined_at = now],
                                      participants)
                 ELSE participants
     IN /\ created => nextParticipantId <= MaxParticipantId
        /\ participants' = rows
        /\ nextParticipantId' = IF created THEN nextParticipantId + 1
                                ELSE nextParticipantId
        /\ stream' = UpdateViewerCount(ptask.snap, rows)
  /\ ptask' = Idle
  /\ UNCHANGED <<now, bans, wsState, lastAttempt, lastBan>>
  /\ UnchangedByPresence

\* LiveStreamViewSet.leave up to the SELECT of the open row; without one the
\* handler answers 400 and writes nothing
RestLeaveLoad(u) ==
  /\ ptask = Idle
  /\ OpenLookup(u) # NoParticipant
  /\ ptask' = [pc |-> "commit", op |-> "rest_leave", user |-> u,
               snap |-> stream, found |-> OpenLookup(u)]
  /\ UNCHANGED <<now, stream, participants, nextParticipantId, bans, wsState,
                 lastAttempt, lastBan>>
  /\ UnchangedByPresence

\* LiveStreamViewSet.leave: left_at = now, watch_time += now - joined_at,
\* participant.save(), stream.update_viewer_count()
RestLeaveCommit ==
  /\ ptask.pc = "commit" /\ ptask.op = "rest_leave"
  /\ ptask.found.watch_time + (now - ptask.found.joined_at) <= MaxWatchTime
  /\ LET p == ptask.found
         rows == SaveParticipant(
                   [p EXCEPT !.left_at = now,
                             !.watch_time = p.watch_time + (now - p.joined_at)],
                   participants)
     IN /\ participants' = rows
        /\ stream' = UpdateViewerCount(ptask.snap, rows)
  /\ ptask' = Idle
  /\ UNCHANGED <<now, nextParticipantId, bans, wsState, lastAttempt, lastBan>>
  /\ UnchangedByPresence

\* LiveStreamViewSet.start_stream up to the status check: only the streamer,
\* 400 when the stream is live already
RestStartLoad ==
  /\ ptask = Idle
  /\ stream.status # "live"
  /\ ptask' = [pc |-> "commit", op |-> "rest_start", user |-> Streamer,
               snap |-> stream, found |-> NoParticipant]
  /\ UNCHANGED <<now, stream, participants, nextParticipantId, bans, wsState,
                 lastAttempt, lastBan>>
  /\ UnchangedByPresence

\* LiveStreamViewSet.start_stream: LiveStream.start_stream saves the loaded
\* instance, then get_or_create of the streamer's participant row; a row
\* that exists is left as it is, a new one fires the participant handler
RestStartCommit ==
  /\ ptask.pc = "commit" /\ ptask.op = "rest_start"
  /\ LET started == IF ptask.snap.status # "live"
                    THEN [ptask.snap EXCEPT !.status = "live"]
                    ELSE ptask.snap
         created == ~ParticipantUniqueViolation(Streamer)
         rows == IF created THEN participants \cup {NewParticipant(Streamer)}
                 ELSE participants
     IN /\ created => nextParticipantId <= MaxParticipantId
        /\ participants' = rows
        /\ nextParticipantId' = IF created THEN nextParticipantId + 1
                                ELSE nextParticipantId
        /\ stream' = IF created THEN UpdateViewerCount(started, rows)
                     ELSE started
  /\ ptask' = Idle
  /\ UNCHANGED <<now, bans, wsState, lastAttempt, lastBan>>
  /\ UnchangedByPresence

\* LiveStreamViewSet.end_stream up to the status check: only the streamer,
\* 400 unless the stream is live
RestEndLoad ==
  /\ ptask = Idle
  /\ stream.status = "live"
  /\ ptask' = [pc |-> "commit", op |-> "rest_end", user |-> Streamer,
               snap |-> stream, found |-> NoParticipant]
  /\ UNCHANGED <<now, stream, participants, nextParticipantId, bans, wsState,
                 lastAttempt, lastBan>>
  /\ UnchangedByPresence

\* LiveStreamViewSet.end_stream: LiveStream.end_stream saves the loaded
\* instance, then one UPDATE closes every open row (a queryset update sends
\* no post_save and nothing recounts the viewers)
RestEndCommit ==
  /\ ptask.pc = "commit" /\ ptask.op = "rest_end"
  /\ stream' = IF ptask.snap.status = "live"
               THEN [ptask.snap EXCEPT !.status = "ended"]
               ELSE stream
  /\ participants' = {IF p.left_at = Null THEN [p EXCEPT !.left_at = now]
                      ELSE p : p \in participants}
  /\ ptask' = Idle
  /\ UNCHANGED <<now, nextParticipantId, bans, wsState, lastAttempt, lastBan>>
  /\ UnchangedByPresence

\* LiveStreamConsumer.handle_stream_control, after is_streamer: the SELECT of
\* start_stream / end_stream / update_stream_title
WsControlLoad(action) ==
  /\ ptask = Idle
  /\ wsState[Streamer] = "open"
  /\ ptask' = [pc |-> "commit", op |-> action, user |-> Streamer,
               snap |-> stream, found |-> NoParticipant]
  /\ UNCHANGED <<now, stream, participants, nextParticipantId, bans, wsState,
                 lastAttempt, lastBan>>
  /\ UnchangedByPresence

\* LiveStreamConsumer.start_stream: status = LIVE, stream.save()
WsStartStream ==
  /\ ptask.pc = "commit" /\ ptask.op = "ws_start"
  /\ stream' = [ptask.snap EXCEPT !.status = "live"]
  /\ ptask' = Idle
  /\ UNCHANGED <<now, participants, nextParticipantId, bans, wsState,
                 lastAttempt, lastBan>>
  /\ UnchangedByPresence

\* LiveStreamConsumer.end_stream: status = ENDED, stream.save()
WsEndStream ==
  /\ ptask.pc = "commit" /\ ptask.op = "ws_end"
  /\ stream' = [ptask.snap EXCEPT !.status = "ended"]
  /\ ptask' = Idle
  /\ UNCHANGED <<now, participants, nextParticipantId, bans, wsState,
                 lastAttempt, lastBan>>
  /\ UnchangedByPresence

\* LiveStreamConsumer.update_stream_title: title = the client's, stream.save()
WsUpdateStreamTitle ==
  /\ ptask.pc = "commit" /\ ptask.op = "ws_title"
  /\ \E title \in Titles : stream' = [ptask.snap EXCEPT !.title = title]
  /\ ptask' = Idle
  /\ UNCHANGED <<now, participants, nextParticipantId, bans, wsState,
                 lastAttempt, lastBan>>
  /\ UnchangedByPresence

\* LiveStreamConsumer.connect up to accept(): can_access_stream is can_view,
\* nothing looks at the bans
WsConnect(u) ==
  /\ wsState[u] = "closed"
  /\ CanView(u)
  /\ wsState' = [wsState EXCEPT ![u] = "accepted"]
  /\ UNCHANGED <<now, stream, participants, nextParticipantId, bans, ptask,
                 lastAttempt, lastBan>>
  /\ UnchangedByPresence

\* LiveStreamConsumer.add_participant: get_or_create, a closed row is
\* reopened with its old joined_at; the insert or the save fires
\* handle_participant_activity, which recounts on a fresh stream instance
WsAddParticipant(u) ==
  /\ wsState[u] = "accepted"
  /\ LET found == ParticipantLookup(u)
         created == found = NoParticipant
         reopen == ~created /\ found.left_at # Null
         rows == IF created THEN participants \cup {NewParticipant(u)}
                 ELSE IF reopen
                 THEN SaveParticipant([found EXCEPT !.left_at = Null],
                                      participants)
                 ELSE participants
     IN /\ created => nextParticipantId <= MaxParticipantId
        /\ participants' = rows
        /\ nextParticipantId' = IF created THEN nextParticipantId + 1
                                ELSE nextParticipantId
        /\ stream' = IF created \/ reopen THEN UpdateViewerCount(stream, rows)
                     ELSE stream
  /\ wsState' = [wsState EXCEPT ![u] = "added"]
  /\ UNCHANGED lastBan
  /\ lastAttempt' = Attempt("ws_connect", u, TRUE)
  /\ UNCHANGED <<now, bans, ptask>>
  /\ UnchangedByPresence

\* LiveStreamConsumer.send_viewer_count, the last step of connect and of
\* disconnect
WsSendViewerCount(u) ==
  /\ wsState[u] \in {"added", "removed"}
  /\ stream' = SendViewerCountRow(stream, participants)
  /\ wsState' = [wsState EXCEPT ![u] = IF @ = "added" THEN "open"
                                      ELSE "closed"]
  /\ UNCHANGED <<now, participants, nextParticipantId, bans, ptask,
                 lastAttempt, lastBan>>
  /\ UnchangedByPresence

\* LiveStreamConsumer.remove_participant, the first database step of
\* disconnect: left_at = now, watch_time = now - joined_at, save (which
\* fires handle_participant_activity); nothing when no row is open
WsRemoveParticipant(u) ==
  /\ wsState[u] = "open"
  /\ LET p == OpenLookup(u)
         rows == IF p = NoParticipant THEN participants
                 ELSE SaveParticipant(
                        [p EXCEPT !.left_at = now,
                                  !.watch_time = now - p.joined_at],
                        participants)
     IN /\ participants' = rows
        /\ stream' = IF p = NoParticipant THEN stream
                     ELSE UpdateViewerCount(stream, rows)
  /\ wsState' = [wsState EXCEPT ![u] = "removed"]
  /\ UNCHANGED <<now, nextParticipantId, bans, ptask, lastAttempt, lastBan>>
  /\ UnchangedByPresence

\* the clock of timezone.now()
Tick ==
  /\ now < MaxTime
  /\ now' = now + 1
  /\ UNCHANGED <<stream, participants, nextParticipantId, bans, ptask,
                 wsState, lastAttempt, lastBan>>
  /\ UnchangedByPresence

\* --------------------------------------------------- WebSocket rooms
\* LiveStream.can_view as LiveStreamConsumer.can_access_stream calls it: the
\* friends branch calls streamer.is_friend, which the User model does not
\* define, so it ends in AttributeError
StreamAccess(privacy, c) ==
  IF privacy = "public" THEN "allowed"
  ELSE IF privacy = "friends" THEN "raised"
  ELSE IF c = Streamer THEN "allowed" ELSE "denied"

\* the authorization condition of a room: conversation.participants holds
\* the caller (the test made by ChatConsumer.handle_message), the stream
\* can be viewed; comment and direct-message rooms have none
Authorized(r, c) ==
  IF r = "chat" THEN c \in ConversationParticipants
  ELSE IF r = "stream" THEN StreamAccess(rooms.privacy, c) = "allowed"
  ELSE TRUE

\* is_authenticated
IsAuthenticated(c) == c # "anon"

\* the channels of a group whose consumer is running
Members(r) == {c \in rooms.group[r] : rooms.state[c][r] = "joined"}

\* a new connection of c to r: who is noted as connecting without the
\* room's authorization, and the events noted for c start afresh
NoteConnect(rm, r, c) ==
  [rm EXCEPT !.unauthorized[r] =
               IF IsAuthenticated(c) /\ ~Authorized(r, c)
               THEN @ \cup {c} ELSE @ \ {c},
             !.received[r] = @ \ {c}]

\* channel_layer.group_send: the event reaches every running consumer of
\* the group; noted for callers who are anonymous or unauthorized
Deliver(rm, r) ==
  [rm EXCEPT !.received[r] =
     @ \cup {c \in rm.group[r] :
               /\ rm.state[c][r] = "joined"
               /\ (c \in rm.unauthorized[r] \/ ~IsAuthenticated(c))}]

\* group_add, accept and the "joined" status event
JoinRoom(rm, r, c) ==
  Deliver([rm EXCEPT !.group[r] = @ \cup {c}, !.state[c][r] = "joined"], r)

\* ChatConsumer.connect, CommentConsumer.connect, DMConsumer.connect: an
\* unauthenticated caller is closed, anyone else joins the group
RoomConnect(r, c) ==
  /\ r \in {"chat", "comment", "dm"}
  /\ rooms.state[c][r] # "joined"
  /\ rooms' = IF ~IsAuthenticated(c)
              THEN [NoteConnect(rooms, r, c) EXCEPT !.state[c][r] = "closed"]
              ELSE JoinRoom(NoteConnect(rooms, r, c), r, c)
  /\ SideFrame("rooms")

\* LiveStreamConsumer.connect as seen from the channel layer: can_access_stream
\* decides; then group_add, accept, add_participant (get_or_create with
\* user = AnonymousUser raises) and the viewer-count broadcast
StreamConnect(c) ==
  /\ rooms.state[c]["stream"] # "joined"
  /\ LET access == StreamAccess(rooms.privacy, c)
         rm == NoteConnect(rooms, "stream", c)
     IN rooms' =
          IF access = "raised" THEN [rm EXCEPT !.state[c]["stream"] = "error"]
          ELSE IF access = "denied"
          THEN [rm EXCEPT !.state[c]["stream"] = "closed"]
          ELSE IF ~IsAuthenticated(c)
          THEN [rm EXCEPT !.group["stream"] = @ \cup {c},
                          !.state[c]["stream"] = "crashed"]
          ELSE JoinRoom(rm, "stream", c)
  /\ SideFrame("rooms")

\* disconnect of a running consumer: group_discard, then the "left" status
\* event (viewer count for the stream)
RoomDisconnect(r, c) ==
  /\ rooms.state[c][r] = "joined"
  /\ rooms' = Deliver([rooms EXCEPT !.group[r] = @ \ {c},
                                    !.state[c][r] = "none"], r)
  /\ SideFrame("rooms")

\* receive of a running consumer: typing, read and message events are sent
\* to the group; ChatConsumer.handle_message answers "Not a participant"
\* to a caller outside conversation.participants and sends nothing
RoomEvent(r, c, kind) ==
  /\ rooms.state[c][r] = "joined"
  /\ rooms' = IF r = "chat" /\ kind = "message"
                 /\ c \notin ConversationParticipants
              THEN rooms
              ELSE Deliver(rooms, r)
  /\ SideFrame("rooms")

\* LiveStreamViewSet.partial_update by the streamer: privacy is a field of
\* LiveStreamUpdateSerializer
RestSetPrivacy ==
  \E p \in PrivacyLevels :
    /\ rooms' = [rooms EXCEPT !.privacy = p]
    /\ SideFrame("rooms")

\* ------------------------------------------------------ bans and chat
\* StreamBanAdmin: a ban row saved through the admin site, one per
\* (stream, user) by unique_together, expires_at left empty or set
AdminAddBan ==
  \E u \in Users, e \in {Null} \cup (1..MaxTime) :
    /\ \A b \in bans : b.user # u
    /\ bans' = bans \cup {[user |-> u, expires_at |-> e]}
    /\ UNCHANGED <<now, stream, participants, nextParticipantId, ptask,
                   wsState, lastAttempt, lastBan>>
    /\ UnchangedByPresence

\* StreamBanViewSet.unban: the streamer deletes the ban row
Unban ==
  \E b \in bans :
    /\ bans' = bans \ {b}
    /\ UNCHANGED <<now, stream, participants, nextParticipantId, ptask,
                   wsState, lastAttempt, lastBan>>
    /\ UnchangedByPresence

\* fields of StreamBanSerializer and its Meta.read_only_fields (with the
\* fields declared read_only on the class)
BanSerializerFields ==
  {"id", "stream", "stream_title", "user", "user_info", "banned_by",
   "banned_by_info", "reason", "expires_at", "created_at", "is_active"}
BanReadOnlyFields ==
  {"id", "stream", "banned_by", "created_at", "is_active", "stream_title",
   "user_info", "banned_by_info"}
\* keys serializer.validated_data can hold
BanValidatedKeys == BanSerializerFields \ BanReadOnlyFields

\* StreamParticipant rows with role MODERATOR: no REST or WebSocket path of
\* the model creates one
IsModerator(u) == FALSE

\* the fate of POST /bans/ by issuer for target with expiry e:
\* StreamBanSerializer.validate_expires_at and validate, then
\* StreamBanViewSet.perform_create, whose first statement reads
\* validated_data["stream"]
BanCreateResult(issuer, target, e) ==
  IF e # Null /\ e < now THEN "invalid"
  ELSE IF "stream" \in BanValidatedKeys /\ target = Streamer THEN "invalid"
  ELSE IF "stream" \in BanValidatedKeys /\ e # Null
          /\ (\E b \in bans : b.user = target /\ b.expires_at # Null
                                /\ b.expires_at > now) THEN "invalid"
  ELSE IF "stream" \notin BanValidatedKeys THEN "key_error"
  ELSE IF ~(issuer = Streamer \/ IsModerator(issuer)) THEN "rejected"
  ELSE IF target = issuer THEN "rejected"
  ELSE IF target = Streamer THEN "rejected"
  ELSE IF \E b \in bans : b.user = target THEN "integrity_error"
  ELSE "created"

\* StreamBanViewSet.create: the whole request
RestBanCreate ==
  \E issuer \in Users, target \in Users, e \in {Null} \cup (1..MaxTime) :
    LET result == BanCreateResult(issuer, target, e) IN
    /\ bans' = IF result = "created"
               THEN bans \cup {[user |-> target, expires_at |-> e]}
               ELSE bans
    /\ lastBan' = IF target = Streamer
                  THEN [op |-> "rest_ban", result |-> result]
                  ELSE lastBan
    /\ UNCHANGED <<now, stream, participants, nextParticipantId, ptask,
                   wsState, lastAttempt>>
    /\ UnchangedByPresence

\* threshold of StreamMessageViewSet.flag
RestFlagThreshold == 3
\* threshold of handle_flagged_message
AutoModerateThreshold == 3

\* handle_flagged_message (post_save of StreamMessage): a flagged row at the
\* threshold gets is_moderated = True written; the handler's own save calls
\* the handler again without end, so the request that triggered it ends in
\* RecursionError after the column is written
HandleFlaggedMessage(m) ==
  IF m.is_flagged /\ m.flag_count >= AutoModerateThreshold
  THEN [m EXCEPT !.is_moderated = TRUE]
  ELSE m

\* handle_new_message (post_save, created): content with a suspicious
\* keyword is flagged and counted once
HandleNewMessage(m, suspicious) ==
  IF suspicious
  THEN [m EXCEPT !.is_flagged = TRUE, !.flag_count = m.flag_count + 1]
  ELSE m

\* StreamMessage.objects.create and its two post_save handlers
NewMessage(u, suspicious) ==
  HandleFlaggedMessage(
    HandleNewMessage(
      HandleFlaggedMessage([id |-> nextMessageId, user |-> u, flag_count |-> 0,
                            is_flagged |-> FALSE, is_moderated |-> FALSE]),
      suspicious))

\* Model.save() of a message instance followed by post_save
SaveMessage(m, rows) ==
  {r \in rows : r.id # m.id} \cup {HandleFlaggedMessage(m)}

\* LiveStreamConsumer.handle_chat_message with non-empty content:
\* is_user_banned, then save_chat_message
WsChatMessage(u) ==
  /\ wsState[u] = "open"
  /\ UNCHANGED lastBan
  /\ lastAttempt' = Attempt("ws_chat", u, ~BanFilterExists(u))
  /\ IF BanFilterExists(u)
     THEN UNCHANGED <<messages, nextMessageId>>
     ELSE /\ nextMessageId <= MaxMessageId
          /\ \E suspicious \in BOOLEAN :
               messages' = messages \cup {NewMessage(u, suspicious)}
          /\ nextMessageId' = nextMessageId + 1
  /\ UNCHANGED <<now, stream, participants, nextParticipantId, bans, ptask,
                 wsState, mtask>>
  /\ UNCHANGED <<reactionVars, sideVars>>
  /\ UNCHANGED notifVars

\* fields of StreamMessageSerializer and its Meta.read_only_fields
MessageSerializerFields ==
  {"id", "stream", "user", "user_info", "message_type", "content", "amount",
   "currency", "is_moderated", "is_flagged", "flag_count", "moderated_by",
   "timestamp", "can_moderate"}
MessageReadOnlyFields ==
  {"id", "stream", "user", "timestamp", "is_flagged", "flag_count",
   "moderated_by", "can_moderate", "user_info"}
\* keys serializer.validated_data can hold
MessageValidatedKeys == MessageSerializerFields \ MessageReadOnlyFields

\* StreamMessageViewSet.perform_create: validated_data["stream"] is read
\* first; a key that validation never provides is a KeyError, and the
\* request ends without a row
RestMessageCreate(u) ==
  /\ OpenLookup(u) # NoParticipant
  /\ UNCHANGED lastBan
  /\ lastAttempt' = Attempt("rest_message", u,
                             "stream" \in MessageValidatedKeys
                             /\ \A b \in bans : b.user # u)
  /\ IF "stream" \in MessageValidatedKeys /\ \A b \in bans : b.user # u
     THEN /\ nextMessageId <= MaxMessageId
          /\ messages' = messages \cup {NewMessage(u, FALSE)}
          /\ nextMessageId' = nextMessageId + 1
     ELSE UNCHANGED <<messages, nextMessageId>>
  /\ UNCHANGED <<now, stream, participants, nextParticipantId, bans, ptask,
                 wsState, mtask>>
  /\ UNCHANGED <<reactionVars, sideVars>>
  /\ UNCHANGED notifVars

\* ------------------------------------------- stream events and broker
\* user.<name>() evaluates: get_full_name and get_friends are methods of
\* users.models.User; username, first_name and email are fields, and
\* calling a field's value raises TypeError
Callable(name) == name \in {"get_full_name", "get_friends"}

\* StreamNotificationService.notify_stream_started / notify_stream_ended as
\* handle_stream_status_change calls them after a save of an existing
\* stream row: the events that reach the topic global_stream_updates; the
\* payload of stream_started calls streamer.username(), and the method's
\* except clause swallows the TypeError
Published(status) ==
  IF status = "live" /\ Callable("username") THEN {"started"}
  ELSE IF status = "ended" /\ Callable("get_full_name") THEN {"ended"}
  ELSE {}

\* what n saves of the stream row, made by one handler that took the
\* status from before to after, leave behind: handle_stream_status_change
\* runs on every save and looks at the status alone
SaveSignals(op, before, after, n) ==
  [op |-> op,
   transition |-> IF after # before /\ after \in {"live", "ended"}
                  THEN after ELSE "none",
   started_log |-> IF after = "live" THEN n ELSE 0,
   started_pub |-> IF "started" \in Published(after) THEN n ELSE 0,
   ended_log |-> IF after = "ended" THEN n ELSE 0,
   ended_pub |-> IF "ended" \in Published(after) THEN n ELSE 0]

\* the bus after a handler that made n saves of the stream row
AfterSaves(b, op, after, n) ==
  [b EXCEPT !.status = after,
            !.topic = IF n > 0 THEN @ \cup Published(after) ELSE @,
            !.produced = @ \cup (IF after # b.status /\ after = "live"
                                 THEN {"started"}
                                 ELSE IF after # b.status /\ after = "ended"
                                 THEN {"ended"} ELSE {}),
            !.last = SaveSignals(op, b.status, after, n)]

\* LiveStreamViewSet.join and LiveStreamConsumer.connect: the participant
\* row is created or reopened (post_save: stream.update_viewer_count), then
\* the handler recounts and saves the stream row; neither sends to the group
\* (send_viewer_count only returns the count)
BusJoin(op, u) ==
  /\ bus' = [AfterSaves(bus, op, bus.status,
                        IF u \in bus.joined THEN 1 ELSE 2)
               EXCEPT !.rows = @ \cup {u},
                      !.joined = @ \cup {u},
                      !.owed = @ \cup {"join"},
                      !.produced = IF u \in bus.joined THEN @
                                   ELSE @ \cup {"viewer_count"}]
  /\ SideFrame("bus")

\* LiveStreamViewSet.leave and LiveStreamConsumer.disconnect
BusLeave(op, u) ==
  /\ u \in bus.joined
  /\ bus' = [AfterSaves(bus, op, bus.status, 2)
               EXCEPT !.joined = @ \ {u},
                      !.owed = @ \cup {"leave"},
                      !.produced = @ \cup {"viewer_count"}]
  /\ SideFrame("bus")

\* LiveStreamConsumer.handle_chat_message and handle_reaction: the row is
\* saved, then the group_send payload evaluates self.user.username()
BusMessage(kind, u) ==
  /\ u \in bus.joined
  /\ bus' = [bus EXCEPT !.owed = @ \cup {kind},
                        !.sent = IF Callable("username")
                                 THEN @ \cup {kind} ELSE @,
                        !.produced = IF kind = "chat"
                                     THEN @ \cup {"chat"} ELSE @,
                        !.last = NoOutcome]
  /\ SideFrame("bus")

\* LiveStreamViewSet.start_stream: 400 when already live; LiveStream.
\* start_stream saves, then get_or_create of the streamer's participant row
\* (post_save: update_viewer_count saves again when the row is created)
BusRestStart ==
  /\ bus.status # "live"
  /\ bus' = [AfterSaves(bus, "rest_start", "live",
                        IF Streamer \in bus.rows THEN 1 ELSE 2)
               EXCEPT !.rows = @ \cup {Streamer},
                      !.joined = IF Streamer \in bus.rows THEN @
                                 ELSE @ \cup {Streamer}]
  /\ SideFrame("bus")

\* LiveStreamViewSet.end_stream: 400 unless live; LiveStream.end_stream
\* saves, then the open rows are closed with QuerySet.update (no signal)
BusRestEnd ==
  /\ bus.status = "live"
  /\ bus' = [AfterSaves(bus, "rest_end", "ended", 1) EXCEPT !.joined = {}]
  /\ SideFrame("bus")

\* LiveStreamConsumer.handle_stream_control by the streamer: start_stream,
\* end_stream and update_stream_title assign and save whatever the status
BusWsControl(action) ==
  /\ Streamer \in bus.joined
  /\ bus' = AfterSaves(bus, action,
                       IF action = "start_stream" THEN "live"
                       ELSE IF action = "end_stream" THEN "ended"
                       ELSE bus.status, 1)
  /\ SideFrame("bus")

\* redis_event_listener: a message of global_stream_updates is sent to the
\* group stream_<id> of the listener's process
BusListener ==
  \E m \in bus.topic :
    /\ bus' = [bus EXCEPT !.topic = @ \ {m},
                          !.forwarded = @ \cup {m},
                          !.last = NoOutcome]
    /\ SideFrame("bus")

\* ------------------------------------------- summary cache under toggles
\* get_reaction_summary_cached, cache.get: a hit returns the cached dict,
\* a miss goes on to the query
SummaryGet ==
  /\ lookaside.reader.pc = "idle"
  /\ lookaside.reads < MaxRaceOps
  /\ lookaside' =
       IF lookaside.key.present
       THEN [lookaside EXCEPT !.reads = @ + 1]
       ELSE [lookaside EXCEPT !.reader.pc = "miss"]
  /\ SideFrame("lookaside")

\* get_reaction_summary_cached, the grouped query over the rows
SummaryCompute ==
  /\ lookaside.reader.pc = "miss"
  /\ lookaside' = [lookaside EXCEPT
                    !.reader = [pc |-> "computed",
                                value |-> GroupedCount(lookaside.rows)]]
  /\ SideFrame("lookaside")

\* get_reaction_summary_cached, cache.set of what the query returned
SummarySet ==
  /\ lookaside.reader.pc = "computed"
  /\ lookaside' = [lookaside EXCEPT
                    !.key = [present |-> TRUE, value |-> lookaside.reader.value],
                    !.reader = [pc |-> "idle", value |-> NoSummary.value],
                    !.reads = @ + 1]
  /\ SideFrame("lookaside")

\* ReactionViewSet.toggle up to the write of the row (delete, save or
\* create), served as one statement sequence
ToggleMutate(u, k) ==
  /\ lookaside.toggler = "idle"
  /\ lookaside.toggles < MaxRaceOps
  /\ lookaside' = [lookaside EXCEPT
                    !.rows[u] = IF @ = k THEN "none" ELSE k,
                    !.toggler = "after"]
  /\ SideFrame("lookaside")

\* ReactionViewSet._after_reaction_change: invalidate_reaction_cache
\* deletes the key
ToggleInvalidate ==
  /\ lookaside.toggler = "after"
  /\ lookaside' = [lookaside EXCEPT !.key = NoSummary,
                                    !.toggler = "idle",
                                    !.toggles = @ + 1]
  /\ SideFrame("lookaside")

\* ------------------------------------------------- concurrent flags
\* StreamMessageViewSet.flag up to the permission check: get_object loads
\* the row, flag_count included, into the request's instance
FlagLoad(t) ==
  /\ flagging.task[t].pc = "idle"
  /\ flagging.accepted
       + Cardinality({x \in Tasks : flagging.task[x].pc # "idle"})
       < MaxFlagOps
  /\ flagging' = [flagging EXCEPT
                   !.task[t] = [pc |-> "loaded", seen |-> flagging.flag_count,
                                depth |-> 0],
                   !.last = NoOutcome]
  /\ SideFrame("flagging")

\* StreamMessageViewSet.flag from flag_count += 1 to message.save(): the
\* instance's values overwrite the row; is_flagged and is_moderated keep
\* what the instance loaded unless the threshold is reached. post_save
\* then runs handle_flagged_message, which does nothing, so that the
\* request returns 200, or, with is_flagged and flag_count >= 3, saves again
FlagSave(t) ==
  /\ flagging.task[t].pc = "loaded"
  /\ LET n == flagging.task[t].seen + 1
         hit == n >= RestFlagThreshold
         flagged == hit \/ flagging.is_flagged
         again == flagged /\ n >= AutoModerateThreshold
     IN flagging' = [flagging EXCEPT
                      !.flag_count = n,
                      !.is_flagged = flagged,
                      !.is_moderated = hit \/ @,
                      !.accepted = @ + 1,
                      !.task[t] = IF again
                                  THEN [pc |-> "handler", seen |-> n,
                                        depth |-> 1]
                                  ELSE FlagIdle,
                      !.last = IF again THEN NoOutcome
                               ELSE [op |-> "flag", crossed |-> FALSE,
                                     raised |-> FALSE]]
  /\ SideFrame("flagging")

\* one run of handle_flagged_message with its condition true: is_moderated
\* is set and instance.save(update_fields=["is_moderated"]) sends post_save
\* again to the same receiver with the same instance, one frame deeper;
\* at the interpreter's recursion limit the save raises RecursionError,
\* which no frame catches, and the request fails
FlagHandlerRun(t) ==
  /\ flagging.task[t].pc = "handler"
  /\ flagging' =
       IF flagging.task[t].depth < MaxHandlerDepth
       THEN [flagging EXCEPT !.is_moderated = TRUE,
                             !.task[t].depth = @ + 1,
                             !.last = NoOutcome]
       ELSE [flagging EXCEPT !.task[t] = FlagIdle,
                             !.last = [op |-> "flag", crossed |-> TRUE,
                                       raised |-> TRUE]]
  /\ SideFrame("flagging")

\* ------------------------------------------------------- user accounts
\* one receiver of post_save(User) on the row r: the row afterwards and
\* whether the receiver raised
\*   create_or_update_user_profile_and_settings: get_or_create of both rows
\*     when created, else instance.profile.save() (RelatedObjectDoesNotExist
\*     without a profile)
\*   create_user_settings: UserSettings.objects.create when created
\*     (IntegrityError on the one-to-one when a row exists), else
\*     get_or_create
\*   create_notification_preferences: create when created
\*   send_welcome_notification: create_notification to the new user
Receive(name, r, created) ==
  IF name = "profile_and_settings"
  THEN IF created
       THEN [row |-> [r EXCEPT !.profiles = Max(@, 1), !.settings = Max(@, 1)],
             raised |-> FALSE]
       ELSE [row |-> r, raised |-> r.profiles = 0]
  ELSE IF name = "user_settings"
  THEN IF created
       THEN [row |-> IF r.settings = 0 THEN [r EXCEPT !.settings = 1] ELSE r,
             raised |-> r.settings > 0]
       ELSE [row |-> [r EXCEPT !.settings = Max(@, 1)], raised |-> FALSE]
  ELSE IF name = "preferences"
  THEN [row |-> IF created THEN [r EXCEPT !.prefs = 1] ELSE r,
        raised |-> FALSE]
  ELSE [row |-> r,
        raised |-> created /\ NotifyOutcome("new_user", "none") = "raised"]

\* Signal.send: the receivers run in order and the first exception ends
\* the send and propagates to the caller of save()
RECURSIVE SendPostSave(_, _, _)
SendPostSave(order, r, created) ==
  IF order = <<>> THEN [row |-> r, raised |-> FALSE]
  ELSE LET one == Receive(Head(order), r, created)
       IN IF one.raised THEN one
          ELSE SendPostSave(Tail(order), one.row, created)

\* UserManager.create_user and UserRegisterSerializer.create: the User row
\* is inserted and post_save is sent with created = True; the serializer
\* then sets the password and saves again (created = False) if the insert
\* returned
AccountCreate(op, e, order) ==
  /\ ~accounts.rows[e].exists
  /\ LET first == SendPostSave(order, [NoUser EXCEPT !.exists = TRUE], TRUE)
         done == IF op = "register" /\ ~first.raised
                 THEN SendPostSave(order, first.row, FALSE)
                 ELSE first
     IN accounts' = [rows |-> [accounts.rows EXCEPT ![e] = done.row],
                     last |-> [op |-> op, email |-> e,
                               raised |-> done.raised,
                               profiles |-> done.row.profiles]]
  /\ SideFrame("accounts")

\* a later save of an existing user (profile update, password change)
AccountSave(e, order) ==
  /\ accounts.rows[e].exists
  /\ LET done == SendPostSave(order, accounts.rows[e], FALSE)
     IN accounts' = [rows |-> [accounts.rows EXCEPT ![e] = done.row],
                     last |-> [op |-> "save", email |-> e,
                               raised |-> done.raised,
                               profiles |-> done.row.profiles]]
  /\ SideFrame("accounts")

\* the user is deleted; the one-to-one rows cascade
AccountDelete(e) ==
  /\ accounts.rows[e].exists
  /\ accounts' = [rows |-> [accounts.rows EXCEPT ![e] = NoUser],
                  last |-> NoOutcome]
  /\ SideFrame("accounts")

\* ------------------------------------------------ request validation
\* the three branches of toggle on the caller's row of the target: same
\* kind removes, another kind updates, no row creates; Reaction.objects.
\* create and save() do not run the field's choices validation
ToggleRow(rows, tg, k) ==
  [rows EXCEPT ![tg] = IF @ = k THEN "none" ELSE k]

\* what a request left behind, for the record of the last request
EntryRecord(e, op, valid, reason) ==
  [e EXCEPT !.last = [op |-> op, valid |-> valid, reason |-> reason,
                      changed |-> \/ e.rows # entry.rows
                                  \/ e.cached # entry.cached
                                  \/ e.sreacts # entry.sreacts
                                  \/ e.msgs # entry.msgs]]

\* ReactionViewSet.toggle: 400 with a detail when neither post nor comment
\* is given; the kind is taken as sent; every branch invalidates the
\* target's cache key
EntryRestToggle(tg, k) ==
  /\ entry' =
       IF tg = "none"
       THEN EntryRecord(entry, "rest_toggle", FALSE, TRUE)
       ELSE EntryRecord([entry EXCEPT !.rows = ToggleRow(@, tg, k),
                                      !.cached = @ \ {tg}],
                        "rest_toggle", k \in ReactionTypes, FALSE)
  /\ SideFrame("entry")

\* ReactionConsumer.handle_toggle: without a comment id the target is the
\* post of the message or of the room; the kind is taken as sent; every
\* branch ends in broadcast_summary, which fills the cache key on a miss
EntryWsToggle(tg, k) ==
  /\ LET target == IF tg = "none" THEN "post1" ELSE tg
     IN entry' = EntryRecord([entry EXCEPT !.rows = ToggleRow(@, target, k),
                                           !.cached = @ \cup {target}],
                             "ws_toggle",
                             tg # "none" /\ k \in ReactionTypes, FALSE)
  /\ SideFrame("entry")

\* LiveStreamConsumer.handle_reaction: save_reaction is get_or_create on
\* (stream, user, reaction_type) with the kind as sent
EntryStreamReaction(k) ==
  /\ entry' = EntryRecord([entry EXCEPT !.sreacts = @ \cup {k}],
                          "stream_reaction", k \in ReactionTypes, FALSE)
  /\ SideFrame("entry")

\* LiveStreamConsumer.handle_chat_message by a user who is not banned:
\* empty content returns without a word, anything else is saved
EntryChat(content) ==
  /\ entry.msgs < MaxChat
  /\ entry' =
       IF content = ""
       THEN EntryRecord(entry, "chat_message", FALSE, FALSE)
       ELSE EntryRecord([entry EXCEPT !.msgs = @ + 1],
                        "chat_message", TRUE, FALSE)
  /\ SideFrame("entry")

\* ReactionViewSet.summary: get_reaction_summary_cached fills the key
EntrySummary(tg) ==
  /\ entry' = [entry EXCEPT !.cached = @ \cup {tg}, !.last = NoOutcome]
  /\ SideFrame("entry")

\* ------------------------------------------- sessions and heartbeats
\* the row of (stream, user) is open: left_at is null
RowOpen(rows, u) == rows[u].exists /\ rows[u].open

\* StreamParticipantSerializer.get_is_online
IsOnline(rows, u, t) ==
  IF ~RowOpen(rows, u) THEN FALSE ELSE rows[u].last > t - StaleWindow

\* LiveStreamConsumer.send_viewer_count: the rows with left_at null
CountedRows(rows) == {u \in Users : RowOpen(rows, u)}

\* LiveStreamConsumer.add_participant: get_or_create on (stream, user); a
\* closed row is reopened and saved (last_activity is auto_now), an open row
\* is left as it is
AddParticipant(rows, u, t) ==
  IF ~rows[u].exists \/ ~rows[u].open
  THEN [rows EXCEPT ![u] = [exists |-> TRUE, open |-> TRUE, last |-> t]]
  ELSE rows

\* LiveStreamConsumer.remove_participant: the user's open row, whichever
\* socket is closing, gets left_at = now
RemoveParticipant(rows, u, t) ==
  IF RowOpen(rows, u)
  THEN [rows EXCEPT ![u] = [exists |-> TRUE, open |-> FALSE, last |-> t]]
  ELSE rows

\* LiveStreamConsumer.update_participant_activity
UpdateParticipantActivity(rows, u, t) ==
  IF RowOpen(rows, u) THEN [rows EXCEPT ![u].last = t] ELSE rows

\* LiveStreamConsumer.connect of one more socket of u (a socket lost
\* without a close frame may be replaced by a new one)
SessConnect(u, c) ==
  /\ sess.conn[u][c] # "open"
  /\ LET rows == AddParticipant(sess.row, u, sess.clock)
     IN sess' = [sess EXCEPT !.conn[u][c] = "open",
                             !.row = rows,
                             !.counted = CountedRows(rows)]
  /\ SideFrame("sess")

\* LiveStreamConsumer.disconnect of one socket of u
SessDisconnect(u, c) ==
  /\ sess.conn[u][c] = "open"
  /\ LET rows == RemoveParticipant(sess.row, u, sess.clock)
     IN sess' = [sess EXCEPT !.conn[u][c] = "closed",
                             !.row = rows,
                             !.counted = CountedRows(rows)]
  /\ SideFrame("sess")

\* LiveStreamConsumer.handle_heartbeat
SessHeartbeat(u, c) ==
  /\ sess.conn[u][c] = "open"
  /\ sess' = [sess EXCEPT
               !.row = UpdateParticipantActivity(sess.row, u, sess.clock)]
  /\ SideFrame("sess")

\* the client of a socket goes away and the server never runs disconnect
\* for it: no more heartbeats from this socket
SessLost(u, c) ==
  /\ sess.conn[u][c] = "open"
  /\ sess' = [sess EXCEPT !.conn[u][c] = "lost"]
  /\ SideFrame("sess")

\* a minute passes; nothing in the application runs on a timer for
\* participants (cleanup_old_streams deletes ended streams only)
SessTick ==
  /\ sess.clock < MaxClock
  /\ sess' = [sess EXCEPT !.clock = @ + 1]
  /\ SideFrame("sess")

\* ------------------------------------------------------ message feed
\* two streams and their streamers
FeedStreams == {"s1", "s2"}
StreamerOf(s) == IF s = "s1" THEN "u1" ELSE "u2"
\* the ?stream= query parameter, or none
FeedFilters == FeedStreams \cup {"all"}

\* queryset.filter(stream_id=stream_id) when the parameter is given
FilterByStream(rows, f) ==
  IF f = "all" THEN rows ELSE {m \in rows : m.stream = f}

\* StreamMessageViewSet.get_queryset: the stream of the first row (Meta
\* ordering is timestamp) decides whether the caller is privileged; if not,
\* moderated rows are filtered out of the whole queryset
MessageFeed(u, f, rows) ==
  LET qs == FilterByStream(rows, f)
      first == IF qs = {} THEN NoRow
               ELSE CHOOSE m \in qs : \A q \in qs : m.id <= q.id
  IN IF first # NoRow
        /\ ~(u = StreamerOf(first.stream) \/ IsModerator(u))
     THEN {m \in qs : ~m.is_moderated}
     ELSE qs

\* a message saved in either stream (save_chat_message)
FeedPost ==
  \E st \in FeedStreams :
    /\ Cardinality(feed.rows) < MaxFeedId
    /\ feed' = [rows |-> feed.rows \cup
                   {[id |-> Cardinality(feed.rows) + 1, stream |-> st,
                     is_moderated |-> FALSE]},
                asked |-> FALSE]
    /\ SideFrame("feed")

\* StreamMessageViewSet.moderate by the streamer of the message's stream
FeedModerate ==
  \E m \in feed.rows, v \in BOOLEAN :
    /\ feed' = [rows |-> (feed.rows \ {m}) \cup
                            {[m EXCEPT !.is_moderated = v]},
                asked |-> FALSE]
    /\ SideFrame("feed")

\* GET /messages/ by u with stream filter f
FeedList ==
  \E u \in Users, f \in FeedFilters :
    /\ feed' = [rows |-> feed.rows, asked |-> TRUE, user |-> u, filter |-> f,
                result |-> MessageFeed(u, f, feed.rows)]
    /\ SideFrame("feed")

\* ------------------------------------------------- message moderation
\* IsStreamParticipant.has_object_permission for an unsafe method: the
\* message's author, or a user with an open participant row
MayTouchMessage(u, m) == m.user = u \/ OpenLookup(u) # NoParticipant

UnchangedByModeration ==
  /\ UNCHANGED <<now, stream, participants, nextParticipantId, bans, ptask,
                 wsState, lastAttempt, lastBan, nextMessageId>>
  /\ UNCHANGED <<reactionVars, sideVars>>
  /\ UNCHANGED notifVars

\* get_object of a detail route of StreamMessageViewSet (flag, moderate,
\* partial_update) and the checks before the handler changes the instance
MessageLoad(t, op, u, m, value) ==
  /\ mtask[t] = Idle
  /\ m \in messages
  /\ MayTouchMessage(u, m)
  /\ op = "flag" => CanView(u) /\ m.flag_count < MaxFlagCount
  /\ op = "moderate" => u = Streamer
  /\ mtask' = [mtask EXCEPT ![t] =
                 [pc |-> "save", op |-> op, msg |-> m, value |-> value]]
  /\ UNCHANGED messages
  /\ UnchangedByModeration

\* StreamMessageViewSet.flag: flag_count += 1 on the loaded instance, both
\* marks at the threshold, message.save()
RestFlagSave(t) ==
  /\ mtask[t].pc = "save" /\ mtask[t].op = "flag"
  /\ LET m == mtask[t].msg
         n == m.flag_count + 1
         hit == n >= RestFlagThreshold
     IN messages' = SaveMessage(
                      [m EXCEPT !.flag_count = n,
                                !.is_flagged = IF hit THEN TRUE ELSE @,
                                !.is_moderated = IF hit THEN TRUE ELSE @],
                      messages)
  /\ mtask' = [mtask EXCEPT ![t] = Idle]
  /\ UnchangedByModeration

\* StreamMessageViewSet.moderate: is_moderated = True, message.save()
RestModerateSave(t) ==
  /\ mtask[t].pc = "save" /\ mtask[t].op = "moderate"
  /\ messages' = SaveMessage([mtask[t].msg EXCEPT !.is_moderated = TRUE],
                             messages)
  /\ mtask' = [mtask EXCEPT ![t] = Idle]
  /\ UnchangedByModeration

\* StreamMessageViewSet.partial_update: is_moderated is a writable field of
\* the serializer; serializer.save() saves the loaded instance
RestMessageUpdateSave(t) ==
  /\ mtask[t].pc = "save" /\ mtask[t].op = "update"
  /\ messages' = SaveMessage(
                   [mtask[t].msg EXCEPT !.is_moderated = mtask[t].value],
                   messages)
  /\ mtask' = [mtask EXCEPT ![t] = Idle]
  /\ UnchangedByModeration

\* StreamMessage.flag_message on a freshly loaded row
FlagMessage ==
  \E m \in messages :
    /\ m.flag_count < MaxFlagCount
    /\ messages' = SaveMessage([m EXCEPT !.is_flagged = TRUE,
                                         !.flag_count = m.flag_count + 1],
                               messages)
    /\ UNCHANGED mtask
    /\ UnchangedByModeration

\* ------------------------------------------------ notification handlers
UnchangedByNotifications ==
  /\ UNCHANGED <<reactionVars, sideVars>>
  /\ UNCHANGED <<streamVars, sideVars>>

\* comment_notifications (post_save of a new Comment) with
\* detect_mentions_and_notify: the post's author, the parent comment's
\* author and a mentioned user are notified unless they wrote the comment
CommentNotifications ==
  \E author \in Users, postAuthor \in Users,
     parentAuthor \in Users \cup {"none"}, mentioned \in Users \cup {"none"} :
    LET s1 == IF postAuthor # author
              THEN ApplyNotify(NotifState, "post_comment", postAuthor, author)
              ELSE NotifState
        s2 == IF parentAuthor # "none" /\ parentAuthor # author
              THEN ApplyNotify(s1, "comment_reply", parentAuthor, author)
              ELSE s1
        s3 == IF mentioned # "none" /\ mentioned # author
              THEN ApplyNotify(s2, "comment_mention", mentioned, author)
              ELSE s2
    IN /\ SetNotifState(s3)
       /\ UnchangedByNotifications

\* direct_message_notification (post_save of a new DirectMessage): calls
\* create_notification whoever the recipient is
DirectMessageNotification ==
  \E sender \in Users, recipient \in Users :
    /\ SetNotifState(ApplyNotify(NotifState, "message", recipient, sender))
    /\ UnchangedByNotifications

\* the notification step of a reaction toggle or create
ReactionNotification ==
  \E user \in Users, target \in Targets :
    /\ SetNotifState(SendReactionNotification(NotifState, user, target))
    /\ UnchangedByNotifications

\* NotificationViewSet.create: perform_create saves the posted fields with
\* recipient = request.user; sender is a writable field of the serializer
RestNotificationCreate ==
  \E user \in Users, sender \in Users \cup {"none"} :
    /\ nextNotificationId <= MaxNotificationId
    /\ notifications' = notifications \cup
         {[id |-> nextNotificationId, recipient |-> user, sender |-> sender,
           kind |-> "general"]}
    /\ nextNotificationId' = nextNotificationId + 1
    /\ UNCHANGED <<pushed, mailbox, lastNotify>>
    /\ UnchangedByNotifications

\* NotificationViewSet.destroy: a recipient deletes one of their rows
RestNotificationDestroy ==
  \E n \in notifications :
    /\ notifications' = notifications \ {n}
    /\ UNCHANGED <<pushed, mailbox, lastNotify, nextNotificationId>>
    /\ UnchangedByNotifications

\* NotificationPreferenceViewSet.update (and create): get_or_create of the
\* caller's row, then the posted booleans are saved
RestPreferenceUpdate ==
  \E user \in Users, row \in PrefRows :
    /\ mailbox' = [mailbox EXCEPT !.prefs[user] = row]
    /\ UNCHANGED <<notifications, pushed, lastNotify, nextNotificationId>>
    /\ UnchangedByNotifications

\* NotificationPreferenceViewSet.destroy: the caller's row is deleted
RestPreferenceDestroy ==
  \E user \in Users :
    /\ mailbox.prefs[user].present
    /\ mailbox' = [mailbox EXCEPT !.prefs[user] = NoPrefs]
    /\ UNCHANGED <<notifications, pushed, lastNotify, nextNotificationId>>
    /\ UnchangedByNotifications

\* ------------------------------------------------------ specifications
\* no handler that loaded the stream row is between its two steps
Calm == ptask = Idle

\* presence: REST join / leave / start / end, the WebSocket session of each
\* user and the streamer's stream-control commands, all interleaved
NextPresence ==
  \/ \E u \in Users : RestJoinLoad(u)
  \/ RestJoinCommit
  \/ \E u \in Users : RestLeaveLoad(u)
  \/ RestLeaveCommit
  \/ RestStartLoad
  \/ RestStartCommit
  \/ RestEndLoad
  \/ RestEndCommit
  \/ \E a \in {"ws_start", "ws_end", "ws_title"} : WsControlLoad(a)
  \/ WsStartStream
  \/ WsEndStream
  \/ WsUpdateStreamTitle
  \/ \E u \in Users : WsConnect(u)
  \/ \E u \in Users : WsAddParticipant(u)
  \/ \E u \in Users : WsSendViewerCount(u)
  \/ \E u \in Users : WsRemoveParticipant(u)

SpecPresence == Init /\ [][NextPresence]_vars

\* visits: joins and leaves over REST and over the WebSocket, interleaved,
\* while the clock runs
NextVisits ==
  \/ \E u \in Users : RestJoinLoad(u)
  \/ RestJoinCommit
  \/ \E u \in Users : RestLeaveLoad(u)
  \/ RestLeaveCommit
  \/ \E u \in Users : WsConnect(u)
  \/ \E u \in Users : WsAddParticipant(u)
  \/ \E u \in Users : WsSendViewerCount(u)
  \/ \E u \in Users : WsRemoveParticipant(u)
  \/ Tick

SpecVisits == Init /\ [][NextVisits]_vars

\* bans: the ways into a stream and into its chat, with bans made and
\* lifted while time passes, each REST request served before anything else
\* happens
NextBans ==
  \/ \E u \in Users : RestJoinLoad(u)
  \/ RestJoinCommit
  \/ \E u \in Users : Calm /\ WsConnect(u)
  \/ \E u \in Users : Calm /\ WsAddParticipant(u)
  \/ \E u \in Users : Calm /\ WsSendViewerCount(u)
  \/ \E u \in Users : Calm /\ WsChatMessage(u)
  \/ \E u \in Users : Calm /\ RestMessageCreate(u)
  \/ Calm /\ AdminAddBan
  \/ Calm /\ Unban
  \/ Calm /\ RestBanCreate
  \/ Calm /\ Tick

SpecBans == Init /\ [][NextBans]_vars

\* rooms: callers connect to the four kinds of room, send events and
\* disconnect while the streamer changes the stream's privacy
NextRooms ==
  \/ \E r \in RoomKinds, c \in Callers : RoomConnect(r, c)
  \/ \E c \in Callers : StreamConnect(c)
  \/ \E r \in RoomKinds, c \in Callers : RoomDisconnect(r, c)
  \/ \E r \in RoomKinds, c \in Callers,
         kind \in {"typing", "read", "message"} : RoomEvent(r, c, kind)
  \/ RestSetPrivacy

SpecRooms == Init /\ [][NextRooms]_vars

\* the message feed read while messages of two streams arrive and are
\* moderated
NextFeed ==
  \/ FeedPost
  \/ FeedModerate
  \/ FeedList

SpecFeed == Init /\ [][NextFeed]_vars

\* the stream's room as its group and the broker see it: joins, leaves,
\* chat, reactions and stream control, and the broker listener
NextEvents ==
  \/ \E op \in {"rest_join", "ws_connect"}, u \in Users : BusJoin(op, u)
  \/ \E op \in {"rest_leave", "ws_disconnect"}, u \in Users : BusLeave(op, u)
  \/ \E kind \in {"chat", "reaction"}, u \in Users : BusMessage(kind, u)
  \/ BusRestStart
  \/ BusRestEnd
  \/ \E action \in {"start_stream", "end_stream", "update_title"} :
       BusWsControl(action)
  \/ BusListener

\* a summary read and a toggle of the same target, step by step
NextLookaside ==
  \/ SummaryGet
  \/ SummaryCompute
  \/ SummarySet
  \/ \E u \in Users, k \in ReactionTypes : ToggleMutate(u, k)
  \/ ToggleInvalidate

SpecLookaside == Init /\ [][NextLookaside]_vars

\* flags: the request workers serve flag requests on one message
NextFlagging ==
  \/ \E t \in Tasks : FlagLoad(t)
  \/ \E t \in Tasks : FlagSave(t)
  \/ \E t \in Tasks : FlagHandlerRun(t)

SpecFlagging == Init /\ [][NextFlagging]_vars

\* accounts: users are created through the manager or the register
\* serializer, saved again and deleted
NextAccounts ==
  \/ \E op \in {"create_user", "register"}, e \in Emails,
         order \in ReceiverOrders : AccountCreate(op, e, order)
  \/ \E e \in Emails, order \in ReceiverOrders : AccountSave(e, order)
  \/ \E e \in Emails : AccountDelete(e)

SpecAccounts == Init /\ [][NextAccounts]_vars

\* requests of one caller, well-formed or not, on the REST and the
\* WebSocket entry points
NextEntry ==
  \/ \E tg \in EntryTargets \cup {"none"}, k \in RequestKinds :
       EntryRestToggle(tg, k)
  \/ \E tg \in EntryTargets \cup {"none"}, k \in RequestKinds :
       EntryWsToggle(tg, k)
  \/ \E k \in RequestKinds : EntryStreamReaction(k)
  \/ \E content \in {"", "hi"} : EntryChat(content)
  \/ \E tg \in EntryTargets : EntrySummary(tg)

SpecEntry == Init /\ [][NextEntry]_vars

\* sessions: sockets of the stream's room open, beat, close and get lost
\* while the clock runs
NextSessions ==
  \/ \E u \in Users, c \in SessionIds : SessConnect(u, c)
  \/ \E u \in Users, c \in SessionIds : SessDisconnect(u, c)
  \/ \E u \in Users, c \in SessionIds : SessHeartbeat(u, c)
  \/ \E u \in Users, c \in SessionIds : SessLost(u, c)
  \/ SessTick

\* the clock runs and the sockets that can act do act
SpecSessions ==
  Init /\ [][NextSessions]_vars /\ WF_vars(NextSessions) /\ WF_vars(SessTick)

\* every handler that can run does run, and the listener's loop keeps
\* reading its topic
SpecEvents ==
  Init /\ [][NextEvents]_vars /\ WF_vars(NextEvents) /\ WF_vars(BusListener)

\* moderation: messages arrive over the WebSocket and are flagged,
\* moderated and edited over REST
NextModeration ==
  \/ \E u \in Users : WsConnect(u)
  \/ \E u \in Users : WsAddParticipant(u)
  \/ \E u \in Users : WsSendViewerCount(u)
  \/ \E u \in Users : WsChatMessage(u)
  \/ \E t \in Tasks, u \in Users, m \in messages :
       MessageLoad(t, "flag", u, m, TRUE)
  \/ \E t \in Tasks, u \in Users, m \in messages :
       MessageLoad(t, "moderate", u, m, TRUE)
  \/ \E t \in Tasks, u \in Users, m \in messages, v \in BOOLEAN :
       MessageLoad(t, "update", u, m, v)
  \/ \E t \in Tasks : RestFlagSave(t)
  \/ \E t \in Tasks : RestModerateSave(t)
  \/ \E t \in Tasks : RestMessageUpdateSave(t)
  \/ FlagMessage

SpecModeration == Init /\ [][NextModeration]_vars

\* notifications: the events that notify and the REST endpoint of the
\* Notification table
NextNotifications ==
  \/ CommentNotifications
  \/ DirectMessageNotification
  \/ ReactionNotification
  \/ RestNotificationCreate
  \/ RestNotificationDestroy
  \/ RestPreferenceUpdate
  \/ RestPreferenceDestroy

SpecNotifications == Init /\ [][NextNotifications]_vars

\* ------------------------------------------------------------ claims
StreamRows(u) == streamReactions[u]["like"] + streamReactions[u]["love"]

\* C1 (as stated): at most one reaction record per (user, target), the
\* target being a post, a comment or the live stream.
C1_OneRecordPerUserTarget ==
  /\ \A u \in Users, tg \in Targets : Cardinality(Existing(u, tg)) <= 1
  /\ \A u \in Users : StreamRows(u) <= 1

\* C1 (amended): at most one Reaction record per (user, post or comment), and
\* at most one StreamReaction record per (user, stream, kind).
C1_OneRecordPerKey ==
  /\ \A u \in Users, tg \in Targets : Cardinality(Existing(u, tg)) <= 1
  /\ \A u \in Users, k \in ReactionTypes : streamReactions[u][k] <= 1

\* a toggle lost the insert to another request's record for the same key, and
\* a user holds stream reactions of two kinds
C1_Witness ==
  /\ lastOutcome.op # "none"
  /\ lastOutcome.result = "integrity_error"
  /\ reactions # {}
  /\ \E u \in Users : StreamRows(u) = 2

\* C2: a toggle that ran without interference returns 'created', 'removed' or
\* 'updated' according to the record it found, with the matching store
\* effect (the update keeps the row), on the REST and the WebSocket toggle.
C2_ToggleContract ==
  (lastOutcome.op \in {"rest_toggle", "ws_toggle"} /\ lastOutcome.clean) =>
     /\ lastOutcome.prior = "none" =>
          lastOutcome.result = "created" /\ lastOutcome.afterKind = lastOutcome.kind
     /\ lastOutcome.prior = lastOutcome.kind =>
          lastOutcome.result = "removed" /\ lastOutcome.afterKind = "none"
     /\ lastOutcome.prior \notin {"none", lastOutcome.kind} =>
          /\ lastOutcome.result = "updated"
          /\ lastOutcome.afterKind = lastOutcome.kind
          /\ lastOutcome.sameRow

\* C3: a summary read that follows the completed reaction mutations of its
\* target returns the live grouped count of the target's records.
C3_SummaryIsLive ==
  summaryRead.target # "none" =>
     summaryRead.value = LiveSummary(summaryRead.target)

\* C4: whenever no join, leave or end-stream operation is in progress, the
\* stream's stored viewer_count equals the number of its participant rows
\* with left_at = null.
C4_ViewerCountIsOpenRows ==
  (ptask = Idle /\ \A u \in Users : wsState[u] \in {"closed", "open"})
    => stream.viewer_count = ActiveCount(participants)

\* C5: once a flag operation and its post-save handlers have completed, a
\* message with flag_count >= 3 is flagged and moderated; and a message for
\* which that holds with flag_count >= 3 is never again unflagged or
\* unmoderated by a later operation.
C5_FlagEscalation ==
  [][/\ (\A t \in Tasks : mtask'[t] = Idle) =>
          \A m \in messages' :
             m.flag_count >= 3 => m.is_flagged /\ m.is_moderated
     /\ \A m \in messages :
          (m.flag_count >= 3 /\ m.is_flagged /\ m.is_moderated) =>
             \A q \in messages' :
                q.id = m.id => q.is_flagged /\ q.is_moderated]_vars

\* C6: while a ban of a user is active (expires_at null or in the future),
\* every join attempt and every message attempt of that user is rejected
\* and creates no open participant row and no message.
C6_ActiveBanRejects ==
  (lastAttempt.op # "none" /\ lastAttempt.active) => ~lastAttempt.accepted

\* C11: once a ban's expires_at has passed, a join attempt or a message
\* attempt of the banned user is accepted again at every entry point (REST
\* join, REST message create, WebSocket connect, WebSocket chat_message)
\* while the ban row is still there.
C11_ExpiredBanAccepts ==
  (lastAttempt.op # "none" /\ ~lastAttempt.active) => lastAttempt.accepted

\* C12: no ban row ever has the stream's owner as its banned user, and
\* every ban-creation request aimed at the owner is rejected, whoever
\* issues it.
C12_OwnerNeverBanned ==
  /\ \A b \in bans : b.user # Streamer
  /\ lastBan.op # "none" => lastBan.result \in {"rejected", "invalid"}

\* ReactionViewSet.toggle run alone on a key whose record has kind state
\* (or "none"): its answer and the kind on record afterwards
ToggleStep(state, k) ==
  IF state = "none" THEN [result |-> "created", state |-> k]
  ELSE IF state = k THEN [result |-> "removed", state |-> "none"]
  ELSE [result |-> "updated", state |-> k]

\* the answers ra (for kind ka) and rb (for kind kb) and the record left
\* behind are those of toggle ka run before toggle kb
SerialOrder(ka, ra, kb, rb) ==
  LET first == ToggleStep(race.base, ka)
      second == ToggleStep(first.state, kb)
  IN /\ first.result = ra
     /\ second.result = rb
     /\ KindOf(First(Existing(race.user, race.target))) = second.state
     /\ Cardinality(Existing(race.user, race.target)) =
          IF second.state = "none" THEN 0 ELSE 1

\* C13: two concurrent toggles on the same (user, target) serialize: their
\* answers and the record they leave equal those of the two calls run one
\* after the other in some order.
C13_TogglesSerialize ==
  (/\ race.on
   /\ \A t \in Tasks : race.done[t].op # "none"
   /\ \A t \in Tasks :
        race.done[t].result \in {"created", "updated", "removed"})
  => \/ SerialOrder(race.done["t1"].kind, race.done["t1"].result,
                     race.done["t2"].kind, race.done["t2"].result)
     \/ SerialOrder(race.done["t2"].kind, race.done["t2"].result,
                     race.done["t1"].kind, race.done["t1"].result)

\* C14: when two concurrent toggles both find no record and both insert,
\* the loser's uniqueness violation is answered as a conflict or retried
\* as a toggle; it never leaves the handler as an unhandled IntegrityError.
C14_InsertConflictHandled ==
  race.on =>
    \A t \in Tasks :
      race.done[t].op # "none" => race.done[t].result # "integrity_error"

\* C15: in every kind of room an unauthenticated caller's connection is
\* closed: it is never accepted, never in a broadcast group, and no event
\* of the room reaches it.
C15_AnonymousNeverJoins ==
  \A r \in RoomKinds :
    /\ rooms.state["anon"][r] \notin {"joined", "crashed"}
    /\ "anon" \notin rooms.group[r]
    /\ "anon" \notin rooms.received[r]

\* C16: a caller who connected without the room's authorization (not a
\* participant of the conversation, not allowed to view the stream) is not
\* in the room's broadcast group and no event of the room reaches them.
C16_UnauthorizedNeverJoins ==
  \A r \in RoomKinds :
    \A c \in rooms.unauthorized[r] :
      /\ rooms.state[c][r] # "joined"
      /\ c \notin rooms.group[r]
      /\ c \notin rooms.received[r]

\* C17: the message feed never returns a moderated message to a user who
\* is neither the owner nor a moderator of that message's own stream,
\* whatever stream filter the request carries, and returns it to the owner
\* and the moderators of that stream.
C17_ModeratedHiddenFromOthers ==
  feed.asked =>
    \A m \in FilterByStream(feed.rows, feed.filter) :
      m.is_moderated =>
        (m \in feed.result <=>
           (feed.user = StreamerOf(m.stream) \/ IsModerator(feed.user)))

\* C18: a toggle that answers 'created' or 'updated' calls the
\* notification fan-out once for the target's owner unless the owner is
\* the acting user, and a toggle that answers 'removed' never calls it, on
\* the REST toggle and on the WebSocket toggle alike.
C18_ToggleNotifiesOwner ==
  (/\ lastOutcome.op \in {"rest_toggle", "ws_toggle"}
   /\ lastOutcome.result \in {"created", "updated", "removed"})
  => ((lastNotify.op # "none") <=>
        (lastOutcome.result \in {"created", "updated"} /\ ~lastOutcome.own))

\* C19: once create_notification is past the recipient/sender check, the
\* Notification row is persisted and no error reaches the caller.
C19_RowPersisted ==
  (lastNotify.op # "none" /\ lastNotify.outcome # "skipped") =>
    /\ lastNotify.outcome = "created"
    /\ \E n \in notifications :
         /\ n.recipient = lastNotify.recipient
         /\ n.sender = lastNotify.sender
         /\ n.kind = lastNotify.op

C21_EffectsAreBroadcast ==
  \A k \in {"join", "leave", "chat", "reaction"} :
    (k \in bus.owed) ~> (k \in bus.sent)

\* C22: every event produced for the stream (chat message, viewer-count
\* change, started, ended) is eventually re-injected by the broker listener
\* into its local group.
C22_EventsCrossProcesses ==
  \A k \in {"chat", "viewer_count", "started", "ended"} :
    (k \in bus.produced) ~> (k \in bus.forwarded)

\* C23: a participant whose sessions stopped sending heartbeats without a
\* leave or disconnect is eventually reclaimed: its row is closed or it is
\* no longer counted in viewer_count.
C23_StaleParticipantReclaimed ==
  \A u \in Users :
    (/\ RowOpen(sess.row, u)
     /\ \E c \in SessionIds : sess.conn[u][c] = "lost"
     /\ \A c \in SessionIds : sess.conn[u][c] # "open"
     /\ ~IsOnline(sess.row, u, sess.clock))
      ~> (\/ ~RowOpen(sess.row, u)
          \/ u \notin sess.counted
          \/ \E c \in SessionIds : sess.conn[u][c] = "open")

\* C28: while one of a user's sessions in the room is connected, the user's
\* participant row is open and the user is counted in viewer_count.
C28_CountedWhileConnected ==
  \A u \in Users :
    (\E c \in SessionIds : sess.conn[u][c] = "open")
      => (RowOpen(sess.row, u) /\ u \in sess.counted)

\* C24: a request that fails validation (unknown reaction kind, toggle
\* without a target id, chat message without content) is rejected with a
\* reason and leaves every reaction row, message and cache entry as it was.
C24_InvalidRequestRejected ==
  (entry.last.op # "none" /\ ~entry.last.valid)
    => (entry.last.reason /\ ~entry.last.changed)

\* C25: creating a user through create_user or the register serializer
\* completes, post_save handlers included, and leaves exactly one Profile
\* row of that user.
C25_CreateUserCompletes ==
  accounts.last.op \in {"create_user", "register"}
    => (~accounts.last.raised /\ accounts.last.profiles = 1)

\* C26: once the concurrent flag requests on a message are over, its
\* flag_count is the number of accepted flag operations, so that three
\* accepted flags mean an auto-moderated message.
C26_NoFlagLost ==
  (\A t \in Tasks : flagging.task[t].pc = "idle")
    => /\ flagging.flag_count = flagging.accepted
       /\ flagging.accepted >= RestFlagThreshold => flagging.is_moderated

\* C29: the flag operation whose save has is_flagged set and flag_count at
\* the threshold completes: the handler's own re-save sets off a bounded
\* number of further runs and no error.
C29_ThresholdFlagCompletes ==
  (flagging.last.op = "flag" /\ flagging.last.crossed)
    => ~flagging.last.raised

\* C27: once a summary read and a toggle of the same target have both
\* completed, the target's cache key is absent or holds the live grouped
\* count of the reaction rows.
C27_CacheAbsentOrLive ==
  (/\ lookaside.reader.pc = "idle"
   /\ lookaside.toggler = "idle"
   /\ lookaside.reads > 0
   /\ lookaside.toggles > 0)
    => (~lookaside.key.present
        \/ lookaside.key.value = GroupedCount(lookaside.rows))

\* C30: a handler publishes 'stream_started' (resp. 'stream_ended') and
\* writes the 'Stream started' (resp. 'Stream ended') log entry exactly once
\* when it takes the status into LIVE (resp. ENDED), and never when its
\* saves leave the status as it was.
C30_OncePerTransition ==
  bus.last.op # "none" =>
    LET live == IF bus.last.transition = "live" THEN 1 ELSE 0
        ended == IF bus.last.transition = "ended" THEN 1 ELSE 0
    IN /\ bus.last.started_log = live
       /\ bus.last.started_pub = live
       /\ bus.last.ended_log = ended
       /\ bus.last.ended_pub = ended

\* C7: no Notification row has a sender equal to its recipient.
C7_NoSelfNotification ==
  \A n \in notifications : n.sender # n.recipient

\* the step that writes the participant row of a REST join of u
RestJoinStep(u) ==
  ptask.pc = "commit" /\ ptask.op = "rest_join" /\ ptask.user = u
  /\ ptask' = Idle
\* the step that writes the participant row of a WebSocket connect of u
WsJoinStep(u) == wsState[u] = "accepted" /\ wsState'[u] = "added"
\* the row the join looked up
JoinFound(u) == IF RestJoinStep(u) THEN ptask.found ELSE ParticipantLookup(u)

\* C8: a user never has two participant rows with left_at = null; a join
\* that finds an open row changes nothing; a join that finds a closed row
\* reopens that row (same identity) and no join adds a second row for a
\* user who has one, also when joins of one user run concurrently.
C8_OneOpenRowSameIdentity ==
  [][\A u \in Users :
       /\ Cardinality({q \in participants' :
                         q.user = u /\ q.left_at = Null}) <= 1
       /\ (RestJoinStep(u) \/ WsJoinStep(u)) =>
            /\ (JoinFound(u) # NoParticipant /\ JoinFound(u).left_at = Null)
                 => participants' = participants
            /\ (JoinFound(u) # NoParticipant /\ JoinFound(u).left_at # Null)
                 => \E q \in participants' :
                       q.id = JoinFound(u).id /\ q.left_at = Null
            /\ RowsOf(u) # {} =>
                 {q.id : q \in {r \in participants' : r.user = u}}
                   = {p.id : p \in RowsOf(u)}]_vars

\* a user is back in the stream on the row of an earlier, timed visit, the
\* only row ever made
C8_Witness ==
  /\ nextParticipantId = 2
  /\ \E p \in participants : p.left_at = Null /\ p.watch_time > 0

\* C9: each leave that closes an open row sets watch_time to its previous
\* value plus (now - joined_at), and watch_time never decreases.
C9_WatchTimeAccumulates ==
  [][\A p \in participants : \A q \in participants' :
       q.id = p.id =>
         /\ q.watch_time >= p.watch_time
         /\ (p.left_at = Null /\ q.left_at # Null) =>
              q.watch_time = p.watch_time + (now - p.joined_at)]_vars

\* C10: the stored peak_viewers is at least viewer_count and never
\* decreases, whichever operations that save the stream row interleave.
C10_PeakNeverDecreases ==
  [][/\ stream'.peak_viewers >= stream.peak_viewers
     /\ stream'.peak_viewers >= stream'.viewer_count]_vars

====
